---- MODULE Spec2Model ----
(***************************************************************************)
(* A model of the CSP evaluator core: the policy vocabulary, the           *)
(* effective-policy resolver for collections of enforced policies          *)
(* (EnforcedCsps.getEffectiveCsps) and for a single policy                 *)
(* (csp.Csp.getEffectiveCsp), and the check-evaluation engine              *)
(* (csp.CspEvaluator).                                                     *)
(*                                                                         *)
(* Policies are JavaScript objects: they live in a heap and are referred   *)
(* to by reference, so that cloning and in-place mutation (arrayRemove,    *)
(* delete) are modelled as they happen.  A policy value is its directives  *)
(* in insertion order, each a record [name, values].                       *)
(***************************************************************************)
EXTENDS Integers, Sequences, FiniteSets, TLC

VARIABLES
  heap,       \* sequence of policy values; a reference is an index into it
  csps,       \* the parsed collection: a sequence of references
  effective,  \* the collection returned by the last resolver call
  findings,   \* the array handed to the last resolver call as optFindings
  evaluator,  \* the CspEvaluator object: [csp, version, findings]
  last,       \* the last call: its operation, arguments and whether it returned
  unparsedCsps,  \* the header strings handed to the parser: [isArray, headers]
  running     \* the resolver calls in flight, one record per call

vars == <<heap, csps, effective, findings, evaluator, last, unparsedCsps,
         running>>

(***************************************************************************)
(* Bounds of the model.                                                    *)
(***************************************************************************)
MaxPolicies == 2   \* policies in a collection
MaxValues == 3     \* values in a script-src/default-src value list
MaxTokens == 2     \* directive tokens in the header strings handed to the parser
MaxWords == 2      \* values in a directive token of a header string
MaxUrls == 2       \* URLs in the list handed to matchWildcardUrls

(***************************************************************************)
(* Vocabulary: keywords, directives, versions, finding types, severities.  *)
(***************************************************************************)
Undefined == "undefined"

SELF == "'self'"
NONE == "'none'"
UNSAFE_INLINE == "'unsafe-inline'"
UNSAFE_EVAL == "'unsafe-eval'"
STRICT_DYNAMIC == "'strict-dynamic'"

BASE_URI == "base-uri"
DEFAULT_SRC == "default-src"
OBJECT_SRC == "object-src"
SCRIPT_SRC == "script-src"
SCRIPT_SRC_ATTR == "script-src-attr"
SCRIPT_SRC_ELEM == "script-src-elem"
STYLE_SRC_ATTR == "style-src-attr"
STYLE_SRC_ELEM == "style-src-elem"
MANIFEST_SRC == "manifest-src"
WORKER_SRC == "worker-src"
REPORT_TO == "report-to"
TRUSTED_TYPES == "trusted-types"
REQUIRE_TRUSTED_TYPES_FOR == "require-trusted-types-for"

FETCH_DIRECTIVES ==
  { "child-src", "connect-src", DEFAULT_SRC, "font-src", "frame-src",
    "img-src", MANIFEST_SRC, "media-src", "object-src", SCRIPT_SRC,
    SCRIPT_SRC_ATTR, SCRIPT_SRC_ELEM, "style-src", STYLE_SRC_ATTR,
    STYLE_SRC_ELEM, WORKER_SRC }

\* csp.Keyword and csp.Directive: the values of the two enumerations.
Keyword ==
  { SELF, NONE, UNSAFE_INLINE, UNSAFE_EVAL, STRICT_DYNAMIC,
    "'unsafe-hashed-attributes'", "'unsafe-hashes'", "'report-sample'" }

TrustedTypesSink_SCRIPT == "'script'"

PLUGIN_TYPES == "plugin-types"
REPORT_URI == "report-uri"

Directive ==
  { "child-src", "connect-src", DEFAULT_SRC, "font-src", "frame-src",
    "img-src", "media-src", OBJECT_SRC, SCRIPT_SRC, SCRIPT_SRC_ATTR,
    SCRIPT_SRC_ELEM, "style-src", STYLE_SRC_ATTR, STYLE_SRC_ELEM,
    "prefetch-src", MANIFEST_SRC, WORKER_SRC, BASE_URI, PLUGIN_TYPES,
    "sandbox", "disown-opener", "form-action", "frame-ancestors", REPORT_TO,
    REPORT_URI, "block-all-mixed-content", "upgrade-insecure-requests",
    "reflected-xss", "referrer", "require-sri-for", TRUSTED_TYPES,
    REQUIRE_TRUSTED_TYPES_FOR }

CSP1 == 1
CSP2 == 2
CSP3 == 3

Severity_HIGH == 10
Severity_SYNTAX == 20
Severity_MEDIUM == 30
Severity_HIGH_MAYBE == 40
Severity_STRICT_CSP == 45
Severity_MEDIUM_MAYBE == 50
Severity_INFO == 60
Severity_NONE == 100
Type_MISSING_SEMICOLON == 100
Type_UNKNOWN_DIRECTIVE == 101
Type_INVALID_KEYWORD == 102
Type_MISSING_DIRECTIVES == 300
Type_SCRIPT_UNSAFE_INLINE == 301
Type_SCRIPT_UNSAFE_EVAL == 302
Type_PLAIN_URL_SCHEMES == 303
Type_PLAIN_WILDCARD == 304
Type_SCRIPT_WHITELIST_BYPASS == 305
Type_OBJECT_WHITELIST_BYPASS == 306
Type_NONCE_LENGTH == 307
Type_IP_SOURCE == 308
Type_SRC_HTTP == 310
Type_ALLOWLIST_FALLBACK == 404
Type_IGNORED == 405

\* The descriptions of the resolver's two IGNORED findings.
UNSAFE_INLINE_IGNORED ==
  "unsafe-inline is ignored if a nonce or a hash is present. (CSP2 and above)"

ALLOWLIST_IGNORED ==
  "Because of strict-dynamic this entry is ignored in CSP3 and above"

Finding(type, description, severity, directive, value) ==
  [ type |-> type, description |-> description, severity |-> severity,
    directive |-> directive, value |-> value ]

(***************************************************************************)
(* Strings and arrays.                                                     *)
(***************************************************************************)
startsWith(s, p) == Len(s) >= Len(p) /\ SubSeq(s, 1, Len(p)) = p

endsWith(s, p) == Len(s) >= Len(p) /\ SubSeq(s, Len(s) - Len(p) + 1, Len(s)) = p

includes(arr, item) == \E i \in 1..Len(arr) : arr[i] = item

\* The character of s at position i (positions start at 1), as a string.
charAt(s, i) == SubSeq(s, i, i)

\* c is one of the characters of chars.
inChars(c, chars) == \E i \in 1..Len(chars) : charAt(chars, i) = c

LowerCaseLetters == "abcdefghijklmnopqrstuvwxyz"
UpperCaseLetters == "ABCDEFGHIJKLMNOPQRSTUVWXYZ"
Digits == "0123456789"

\* The concatenation of the strings or arrays f[1], ..., f[n], from unit.
RECURSIVE concat(_, _)
concat(f, unit) ==
  IF Len(f) = 0 THEN unit ELSE f[1] \o concat(SubSeq(f, 2, Len(f)), unit)

\* s with each character c replaced by map(c).
mapChars(s, map(_)) == concat([i \in 1..Len(s) |-> map(charAt(s, i))], "")

toLowerCase(s) ==
  mapChars(s, LAMBDA c :
    IF inChars(c, UpperCaseLetters)
      THEN charAt(LowerCaseLetters,
                  CHOOSE i \in 1..Len(UpperCaseLetters) :
                    charAt(UpperCaseLetters, i) = c)
      ELSE c)

\* s.replace(/c/g, '')
removeChar(s, c) == mapChars(s, LAMBDA d : IF d = c THEN "" ELSE d)

\* The position of the first occurrence of p in s, 0 if there is none
\* (indexOf, with positions from 1).
indexOf(s, p) ==
  LET at == { i \in 1..(Len(s) - Len(p) + 1) : SubSeq(s, i, i + Len(p) - 1) = p }
  IN IF at = {} THEN 0 ELSE CHOOSE i \in at : \A j \in at : i <= j

\* /^'nonce-(.+)'$/
isNonce(v) ==
  /\ Len(v) >= Len("'nonce-") + 2
  /\ startsWith(v, "'nonce-")
  /\ endsWith(v, "'")

\* /^'(sha256|sha384|sha512)-(.+)'$/
isHash(v) ==
  /\ \E alg \in {"sha256", "sha384", "sha512"} :
        /\ Len(v) >= Len("'" \o alg \o "-") + 2
        /\ startsWith(v, "'" \o alg \o "-")
  /\ endsWith(v, "'")

\* The index of the first element equal to item (findIndex).
findIndex(arr, item) ==
  CHOOSE i \in 1..Len(arr) :
    arr[i] = item /\ \A j \in 1..(i - 1) : arr[j] # item

\* A removal that puts the item back at the end of the array.
arrayMoveToEnd(arr, item) ==
  IF includes(arr, item)
    THEN SelectSeq(arr, LAMBDA e : e # item) \o <<item>>
    ELSE arr

arrayRemove(arr, item) ==
  IF includes(arr, item)
    THEN LET idx == findIndex(arr, item)
         IN SubSeq(arr, 1, idx - 1) \o SubSeq(arr, idx + 1, Len(arr))
    ELSE arr

(***************************************************************************)
(* Policy objects: `d in csp.directives`, csp.directives[d], assignment    *)
(* to csp.directives[d] of a present directive, and delete.                *)
(***************************************************************************)
hasDirective(csp, d) == \E i \in 1..Len(csp) : csp[i].name = d

directiveValues(csp, d) ==
  csp[CHOOSE i \in 1..Len(csp) : csp[i].name = d].values

\* csp.directives[d] || []
valuesOrEmpty(csp, d) ==
  IF hasDirective(csp, d) THEN directiveValues(csp, d) ELSE <<>>

\* The array with the elements f[1], ..., f[n].
array(f) == f \o <<>>

setDirectiveValues(csp, d, vals) ==
  array([ i \in 1..Len(csp) |->
            IF csp[i].name = d THEN [csp[i] EXCEPT !.values = vals] ELSE csp[i] ])

deleteDirective(csp, d) == SelectSeq(csp, LAMBDA e : e.name # d)

(***************************************************************************)
(* csp.Csp: per-policy helpers.                                            *)
(***************************************************************************)
Csp_getEffectiveDirective(parsedCsp, directive) ==
  IF ~hasDirective(parsedCsp, directive) /\ directive \in FETCH_DIRECTIVES
    THEN DEFAULT_SRC
    ELSE directive

Csp_policyHasScriptNonces(parsedCsp) ==
  LET directiveName == Csp_getEffectiveDirective(parsedCsp, SCRIPT_SRC)
      values == valuesOrEmpty(parsedCsp, directiveName)
  IN \E i \in 1..Len(values) : isNonce(values[i])

Csp_policyHasScriptHashes(parsedCsp) ==
  LET directiveName == Csp_getEffectiveDirective(parsedCsp, SCRIPT_SRC)
      values == valuesOrEmpty(parsedCsp, directiveName)
  IN \E i \in 1..Len(values) : isHash(values[i])

Csp_policyHasStrictDynamic(parsedCsp) ==
  LET directiveName == Csp_getEffectiveDirective(parsedCsp, SCRIPT_SRC)
      values == valuesOrEmpty(parsedCsp, directiveName)
  IN includes(values, STRICT_DYNAMIC)

\* A new object holding a copy of every directive's value array.
Csp_clone(parsedCsp) ==
  array([ i \in 1..Len(parsedCsp) |->
            [ name |-> parsedCsp[i].name,
              values |-> array([ j \in 1..Len(parsedCsp[i].values) |->
                                   parsedCsp[i].values[j] ]) ] ])

(***************************************************************************)
(* The three resolver rules.  A rule works on the heap: thisRef is         *)
(* this[index], effRef is effectiveCsps[index], values is the array        *)
(* this[index].directives[directive] || [] read at the top of the loop     *)
(* body, and st is [heap, findings].                                       *)
(***************************************************************************)
RECURSIVE removeNoncesAndHashes(_, _, _)
removeNoncesAndHashes(values, i, effectiveCspValues) ==
  IF i > Len(values)
    THEN effectiveCspValues
    ELSE removeNoncesAndHashes(values, i + 1,
           IF startsWith(values[i], "'nonce-") \/ startsWith(values[i], "'sha")
             THEN arrayRemove(effectiveCspValues, values[i])
             ELSE effectiveCspValues)

RECURSIVE ignoreAllowlist(_, _, _, _, _)
ignoreAllowlist(values, i, effectiveCspValues, fs, directive) ==
  IF i > Len(values)
    THEN [values |-> effectiveCspValues, findings |-> fs]
    ELSE IF \/ ~startsWith(values[i], "'")
            \/ values[i] = SELF
            \/ values[i] = UNSAFE_INLINE
           THEN ignoreAllowlist(values, i + 1,
                  arrayRemove(effectiveCspValues, values[i]),
                  Append(fs, Finding(Type_IGNORED, ALLOWLIST_IGNORED,
                                     Severity_NONE, directive, values[i])),
                  directive)
           ELSE ignoreAllowlist(values, i + 1, effectiveCspValues, fs, directive)

\* Ignore 'unsafe-inline' in CSP >= v2 if a nonce or a hash is present;
\* remove nonces and hashes in CSP < v2.
nonceHashRule(st, values, effRef, directive, cspVersion) ==
  LET effectiveCsp == st.heap[effRef]
  IN IF /\ hasDirective(effectiveCsp, directive)
        /\ \/ Csp_policyHasScriptNonces(effectiveCsp)
           \/ Csp_policyHasScriptHashes(effectiveCsp)
       THEN IF cspVersion >= CSP2
              THEN IF includes(values, UNSAFE_INLINE)
                     THEN [ heap |-> [st.heap EXCEPT ![effRef] =
                              setDirectiveValues(effectiveCsp, directive,
                                arrayRemove(directiveValues(effectiveCsp, directive),
                                            UNSAFE_INLINE))],
                            findings |-> Append(st.findings,
                              Finding(Type_IGNORED, UNSAFE_INLINE_IGNORED,
                                      Severity_NONE, directive, UNSAFE_INLINE)) ]
                     ELSE st
              ELSE [ heap |-> [st.heap EXCEPT ![effRef] =
                       setDirectiveValues(effectiveCsp, directive,
                         removeNoncesAndHashes(values, 1,
                           directiveValues(effectiveCsp, directive)))],
                     findings |-> st.findings ]
       ELSE st

\* Ignore the allowlist in CSP >= v3 in presence of 'strict-dynamic';
\* remove 'strict-dynamic' itself in CSP < v3.
strictDynamicRule(st, values, thisRef, effRef, directive, cspVersion) ==
  LET effectiveCsp == st.heap[effRef]
  IN IF /\ hasDirective(effectiveCsp, directive)
        /\ Csp_policyHasStrictDynamic(st.heap[thisRef])
       THEN IF cspVersion >= CSP3
              THEN LET r == ignoreAllowlist(values, 1,
                              directiveValues(effectiveCsp, directive),
                              st.findings, directive)
                   IN [ heap |-> [st.heap EXCEPT ![effRef] =
                          setDirectiveValues(effectiveCsp, directive, r.values)],
                        findings |-> r.findings ]
              ELSE [ heap |-> [st.heap EXCEPT ![effRef] =
                       setDirectiveValues(effectiveCsp, directive,
                         arrayRemove(directiveValues(effectiveCsp, directive),
                                     STRICT_DYNAMIC))],
                     findings |-> st.findings ]
       ELSE st

\* A resolver that removes only report-to, worker-src and manifest-src.
removeThreeCsp3Directives(st, effRef, cspVersion) ==
  IF cspVersion < CSP3
    THEN [ heap |-> [st.heap EXCEPT ![effRef] =
             deleteDirective(
               deleteDirective(
                 deleteDirective(st.heap[effRef], REPORT_TO),
                 WORKER_SRC),
               MANIFEST_SRC)],
           findings |-> st.findings ]
    ELSE st

\* Remove CSP3 directives from pre-CSP3 policies.
removeCsp3Directives(st, effRef, cspVersion) ==
  IF cspVersion < CSP3
    THEN [ heap |-> [st.heap EXCEPT ![effRef] =
             deleteDirective(
               deleteDirective(
                 deleteDirective(
                   deleteDirective(
                     deleteDirective(st.heap[effRef], REPORT_TO),
                     WORKER_SRC),
                   MANIFEST_SRC),
                 TRUSTED_TYPES),
               REQUIRE_TRUSTED_TYPES_FOR)],
           findings |-> st.findings ]
    ELSE st

(***************************************************************************)
(* EnforcedCsps: the collection of simultaneously enforced policies.       *)
(***************************************************************************)
\* A collection holding the very policies of the original.
EnforcedCsps_sharePolicies(h, refs) == [ heap |-> h, refs |-> refs ]

\* A collection that shares the policy objects of the original.
EnforcedCsps_cloneSharing(h, refs) == [ heap |-> h, refs |-> refs ]

\* A new collection holding a clone of every policy.
EnforcedCsps_clone(h, refs) ==
  [ heap |-> h \o [i \in 1..Len(refs) |-> Csp_clone(h[refs[i]])],
    refs |-> array([i \in 1..Len(refs) |-> Len(h) + i]) ]

\* The directive if some policy of the collection declares it, else default-src.
EnforcedCsps_getEffectiveDirective(h, refs, directive) ==
  IF \E i \in 1..Len(refs) : hasDirective(h[refs[i]], directive)
    THEN directive
    ELSE DEFAULT_SRC

\* EnforcedCsps.policyHasScriptNonces, policyHasScriptHashes and
\* policyHasStrictDynamic: directiveName is the effective script-src of the
\* collection, and every policy is searched under that name.
EnforcedCsps_policyHasScriptNonces(h, refs) ==
  LET directiveName == EnforcedCsps_getEffectiveDirective(h, refs, SCRIPT_SRC)
  IN \E i \in 1..Len(refs) :
       LET values == valuesOrEmpty(h[refs[i]], directiveName)
       IN \E j \in 1..Len(values) : isNonce(values[j])

EnforcedCsps_policyHasScriptHashes(h, refs) ==
  LET directiveName == EnforcedCsps_getEffectiveDirective(h, refs, SCRIPT_SRC)
  IN \E i \in 1..Len(refs) :
       LET values == valuesOrEmpty(h[refs[i]], directiveName)
       IN \E j \in 1..Len(values) : isHash(values[j])

EnforcedCsps_policyHasStrictDynamic(h, refs) ==
  LET directiveName == EnforcedCsps_getEffectiveDirective(h, refs, SCRIPT_SRC)
  IN \E i \in 1..Len(refs) :
       includes(valuesOrEmpty(h[refs[i]], directiveName), STRICT_DYNAMIC)

\* One pass of the loop body for this[index] (thisRef) and
\* effectiveCsps[index] (effRef).
policyRules(st, values, thisRef, effRef, directive, cspVersion) ==
  removeCsp3Directives(
    strictDynamicRule(
      nonceHashRule(st, values, effRef, directive, cspVersion),
      values, thisRef, effRef, directive, cspVersion),
    effRef, cspVersion)

RECURSIVE effectiveCspsLoop(_, _, _, _, _, _)
effectiveCspsLoop(st, this, effectiveCsps, directive, cspVersion, index) ==
  IF index > Len(effectiveCsps)
    THEN st
    ELSE effectiveCspsLoop(
           policyRules(st, valuesOrEmpty(st.heap[this[index]], directive),
                       this[index], effectiveCsps[index], directive, cspVersion),
           this, effectiveCsps, directive, cspVersion, index + 1)

\* Returns [heap, refs, findings]: the heap after the call, the returned
\* collection and the contents of the optFindings array after the call.
getEffectiveCsps(h, this, cspVersion, optFindings) ==
  LET cl == EnforcedCsps_clone(h, this)
      directive == EnforcedCsps_getEffectiveDirective(cl.heap, cl.refs, SCRIPT_SRC)
      st == effectiveCspsLoop([heap |-> cl.heap, findings |-> optFindings],
                              this, cl.refs, directive, cspVersion, 1)
  IN [ heap |-> st.heap, refs |-> cl.refs, findings |-> st.findings ]

(***************************************************************************)
(* csp.Csp.getEffectiveCsp: the resolver for one policy.                   *)
(***************************************************************************)
Csp_getEffectiveCsp(h, parsedCsp, cspVersion, optFindings) ==
  LET effectiveCsp == Len(h) + 1
      directive == Csp_getEffectiveDirective(h[parsedCsp], SCRIPT_SRC)
      st == policyRules([heap |-> Append(h, Csp_clone(h[parsedCsp])),
                         findings |-> optFindings],
                        valuesOrEmpty(h[parsedCsp], directive),
                        parsedCsp, effectiveCsp, directive, cspVersion)
  IN [ heap |-> st.heap, refs |-> <<effectiveCsp>>, findings |-> st.findings ]

(***************************************************************************)
(* Checks.  A check maps a policy to its findings.                         *)
(***************************************************************************)
fakeFinding ==
  Finding(Type_UNKNOWN_DIRECTIVE, "Fake description", Severity_MEDIUM,
          "fake-directive", "fake-directive-value")

fakeVerifier(parsedCsp) == <<fakeFinding>>

\* A check that never reports 'unsafe-inline'.
checkScriptUnsafeInlineNever(effectiveCsp) == <<>>

checkScriptUnsafeInline(effectiveCsp) ==
  LET directiveName == Csp_getEffectiveDirective(effectiveCsp, SCRIPT_SRC)
      values == valuesOrEmpty(effectiveCsp, directiveName)
  IN IF includes(values, UNSAFE_INLINE)
       THEN << Finding(Type_SCRIPT_UNSAFE_INLINE,
                 "'unsafe-inline' allows the execution of unsafe in-page scripts and event handlers.",
                 Severity_HIGH, directiveName, UNSAFE_INLINE) >>
       ELSE <<>>

DIRECTIVES_CAUSING_XSS == <<SCRIPT_SRC, OBJECT_SRC, BASE_URI>>

\* A loop that reports every absent directive, base-uri included, whatever
\* the script sources.
RECURSIVE missingDirectivesAlways(_, _, _, _)
missingDirectivesAlways(parsedCsp, directivesCausingXss, i, violations) ==
  IF i > Len(directivesCausingXss)
    THEN violations
    ELSE missingDirectivesAlways(parsedCsp, directivesCausingXss, i + 1,
           IF hasDirective(parsedCsp, directivesCausingXss[i])
             THEN violations
             ELSE Append(violations, Finding(Type_MISSING_DIRECTIVES,
                    directivesCausingXss[i] \o " directive is missing.",
                    Severity_HIGH, directivesCausingXss[i], Undefined)))

RECURSIVE missingDirectives(_, _, _, _)
missingDirectives(parsedCsp, directivesCausingXss, i, violations) ==
  IF i > Len(directivesCausingXss)
    THEN violations
    ELSE LET directive == directivesCausingXss[i]
         IN missingDirectives(parsedCsp, directivesCausingXss, i + 1,
              IF hasDirective(parsedCsp, directive)
                THEN violations
                ELSE IF directive = OBJECT_SRC
                  THEN Append(violations, Finding(Type_MISSING_DIRECTIVES,
                         "Missing object-src allows the injection of plugins which can execute JavaScript. Can you set it to 'none'?",
                         Severity_HIGH, directive, Undefined))
                ELSE IF directive = BASE_URI
                  THEN IF /\ ~Csp_policyHasScriptNonces(parsedCsp)
                          /\ ~(/\ Csp_policyHasScriptHashes(parsedCsp)
                               /\ Csp_policyHasStrictDynamic(parsedCsp))
                         THEN violations
                         ELSE Append(violations, Finding(Type_MISSING_DIRECTIVES,
                                "Missing base-uri allows the injection of base tags. They can be used to set the base URL for all relative (script) URLs to an attacker controlled domain. Can you set it to 'none' or 'self'?",
                                Severity_HIGH, directive, Undefined))
                ELSE Append(violations, Finding(Type_MISSING_DIRECTIVES,
                       directive \o " directive is missing.",
                       Severity_HIGH, directive, Undefined)))

\* A check that takes no account of default-src.
checkMissingDirectivesWithoutFallback(parsedCsp) ==
  missingDirectives(parsedCsp, DIRECTIVES_CAUSING_XSS, 1, <<>>)

checkMissingDirectives(parsedCsp) ==
  IF hasDirective(parsedCsp, DEFAULT_SRC)
    THEN LET violations ==
               IF /\ ~hasDirective(parsedCsp, OBJECT_SRC)
                  /\ ~includes(directiveValues(parsedCsp, DEFAULT_SRC), NONE)
                 THEN << Finding(Type_MISSING_DIRECTIVES,
                           "Can you restrict object-src to 'none'?",
                           Severity_HIGH_MAYBE, OBJECT_SRC, Undefined) >>
                 ELSE <<>>
         IN IF hasDirective(parsedCsp, BASE_URI)
              THEN violations
              ELSE missingDirectives(parsedCsp, <<BASE_URI>>, 1, violations)
    ELSE missingDirectives(parsedCsp, DIRECTIVES_CAUSING_XSS, 1, <<>>)

(***************************************************************************)
(* csp.isDirective, csp.isKeyword, csp.isUrlScheme and the parser checks.  *)
(***************************************************************************)
isDirective(directive) == directive \in Directive

isKeyword(keyword) == keyword \in Keyword

\* /^[a-zA-Z][+a-zA-Z0-9.-]*:$/
isUrlScheme(urlScheme) ==
  /\ Len(urlScheme) >= 2
  /\ inChars(charAt(urlScheme, 1), LowerCaseLetters \o UpperCaseLetters)
  /\ \A i \in 2..(Len(urlScheme) - 1) :
       inChars(charAt(urlScheme, i),
               "+" \o LowerCaseLetters \o UpperCaseLetters \o Digits \o ".-")
  /\ endsWith(urlScheme, ":")

\* The findings pushed for every directive of parsedCsp, in the order of
\* Object.keys; perDirective(directive, values) is the loop body.
forEachDirective(parsedCsp, perDirective(_, _)) ==
  concat([i \in 1..Len(parsedCsp) |->
            perDirective(parsedCsp[i].name, parsedCsp[i].values)], <<>>)

\* The findings pushed for every value of values, in order.
forEachValue(values, perValue(_)) ==
  concat([i \in 1..Len(values) |-> perValue(values[i])], <<>>)

checkUnknownDirective(parsedCsp) ==
  forEachDirective(parsedCsp, LAMBDA directive, values :
    IF isDirective(directive)
      THEN <<>>
      ELSE IF endsWith(directive, ":")
        THEN << Finding(Type_UNKNOWN_DIRECTIVE,
                        "CSP directives don't end with a colon.",
                        Severity_SYNTAX, directive, Undefined) >>
        ELSE << Finding(Type_UNKNOWN_DIRECTIVE,
                        "Directive \"" \o directive
                          \o "\" is not a known CSP directive.",
                        Severity_SYNTAX, directive, Undefined) >>)

checkMissingSemicolon(parsedCsp) ==
  forEachDirective(parsedCsp, LAMBDA directive, values :
    forEachValue(values, LAMBDA value :
      IF isDirective(value)
        THEN << Finding(Type_MISSING_SEMICOLON,
                        "Did you forget the semicolon? \"" \o value
                          \o "\" seems to be a directive, not a value",
                        Severity_SYNTAX, directive, value) >>
        ELSE <<>>))

keywordsNoTicks == { removeChar(k, "'") : k \in Keyword }

checkInvalidKeyword(parsedCsp) ==
  forEachDirective(parsedCsp, LAMBDA directive, values :
    forEachValue(values, LAMBDA value :
      IF \/ value \in keywordsNoTicks
         \/ startsWith(value, "nonce-")
         \/ \E alg \in {"sha256", "sha384", "sha512"} :
              startsWith(value, alg \o "-")
        THEN << Finding(Type_INVALID_KEYWORD,
                        "Did you forget to surround \"" \o value
                          \o "\" with single-ticks?",
                        Severity_SYNTAX, directive, value) >>
      ELSE IF ~startsWith(value, "'")
        THEN <<>>
      ELSE IF IF directive = REQUIRE_TRUSTED_TYPES_FOR
                THEN value = TrustedTypesSink_SCRIPT
              ELSE IF directive = TRUSTED_TYPES
                THEN value = "'allow-duplicates'"
              ELSE isKeyword(value) \/ isHash(value) \/ isNonce(value)
        THEN <<>>
      ELSE << Finding(Type_INVALID_KEYWORD,
                      value \o " seems to be an invalid CSP keyword.",
                      Severity_SYNTAX, directive, value) >>))

(***************************************************************************)
(* csp.utils and goog.Uri.  A goog.Uri is [domain, path]; hasPath() is     *)
(* path # "".                                                              *)
(***************************************************************************)
\* The position of the first character of s that is one of chars,
\* Len(s) + 1 if there is none.
firstOf(s, chars) ==
  LET at == { i \in 1..Len(s) : inChars(charAt(s, i), chars) }
  IN IF at = {} THEN Len(s) + 1 ELSE CHOOSE i \in at : \A j \in at : i <= j

\* The position of the last occurrence of the character c in s, 0 if none.
lastIndexOf(s, c) ==
  LET at == { i \in 1..Len(s) : charAt(s, i) = c }
  IN IF at = {} THEN 0 ELSE CHOOSE i \in at : \A j \in at : i >= j

substringFrom(s, i) == SubSeq(s, i, Len(s))

isDigits(s) == Len(s) > 0 /\ \A i \in 1..Len(s) : inChars(charAt(s, i), Digits)

\* new goog.Uri(url) splits url as goog.uri.utils.split does: scheme, "//"
\* authority (user info, domain, port), path, query and fragment.
\* The part of url after its scheme and colon.
afterScheme(url) ==
  LET colon == firstOf(url, ":/?#.")
  IN IF colon > 1 /\ colon <= Len(url) /\ charAt(url, colon) = ":"
       THEN substringFrom(url, colon + 1) ELSE url

\* [authority, rest]: the authority after "//" and what follows it.
splitAuthority(schemeFree) ==
  IF startsWith(schemeFree, "//")
    THEN LET authorityEnd == firstOf(substringFrom(schemeFree, 3), "\\/?#") + 2
         IN [ authority |-> SubSeq(schemeFree, 3, authorityEnd - 1),
              rest |-> substringFrom(schemeFree, authorityEnd) ]
    ELSE [ authority |-> "", rest |-> schemeFree ]

\* The domain of an authority: what is left without user info and port.
domainOf(authority) ==
  LET hostPort == substringFrom(authority, lastIndexOf(authority, "@") + 1)
      portColon == lastIndexOf(hostPort, ":")
  IN IF portColon > 0 /\ isDigits(substringFrom(hostPort, portColon + 1))
       THEN SubSeq(hostPort, 1, portColon - 1) ELSE hostPort

\* The path: what precedes the query and the fragment.
pathOf(afterAuthority) ==
  SubSeq(afterAuthority, 1, firstOf(afterAuthority, "?#") - 1)

uriOfParts(parts) ==
  [ domain |-> domainOf(parts.authority), path |-> pathOf(parts.rest) ]

Uri(url) == uriOfParts(splitAuthority(afterScheme(url)))

\* url.replace(/^\w[+\w.-]*:\/\//i, '').replace(/^\/\//, '')
getSchemeFreeUrl(url) ==
  LET wordChars == LowerCaseLetters \o UpperCaseLetters \o Digits \o "_"
      sep == indexOf(url, "://")
      noScheme ==
        IF /\ sep > 1
           /\ inChars(charAt(url, 1), wordChars)
           /\ \A i \in 2..(sep - 1) : inChars(charAt(url, i), "+" \o wordChars \o ".-")
          THEN substringFrom(url, sep + 3) ELSE url
  IN IF startsWith(noScheme, "//") THEN substringFrom(noScheme, 3) ELSE noScheme

\* A match on the host suffix alone, wildcard or not.
wildcardUrlMatchesBySuffix(cspUrl, url) ==
  endsWith(url.domain,
           IF startsWith(toLowerCase(cspUrl.domain), "*")
             THEN substringFrom(toLowerCase(cspUrl.domain), 2)
             ELSE toLowerCase(cspUrl.domain))

\* A match in which the wildcard and its dot are both stripped from the
\* host before the suffix test.
wildcardUrlMatchesStrippingDot(cspUrl, url) ==
  LET host == toLowerCase(cspUrl.domain)
      hostHasWildcard == startsWith(host, "*.")
  IN /\ endsWith(url.domain, IF hostHasWildcard THEN substringFrom(host, 3) ELSE host)
     /\ hostHasWildcard \/ host = url.domain
     /\ cspUrl.path # "" =>
          IF endsWith(cspUrl.path, "/")
            THEN startsWith(url.path, cspUrl.path)
            ELSE url.path = cspUrl.path

\* A match in which every path of the origin is a directory prefix.
wildcardUrlMatchesByPathPrefix(cspUrl, url) ==
  LET host == toLowerCase(cspUrl.domain)
  IN /\ endsWith(url.domain,
                 IF startsWith(host, "*") THEN substringFrom(host, 2) ELSE host)
     /\ startsWith(host, "*.") \/ host = url.domain
     /\ startsWith(url.path, cspUrl.path)

\* Whether url of listOfUrls matches the allowlisted origin cspUrl.
wildcardUrlMatches(cspUrl, url) ==
  LET host == toLowerCase(cspUrl.domain)
      hostHasWildcard == startsWith(host, "*.")
      wildcardFreeHost == IF startsWith(host, "*") THEN substringFrom(host, 2) ELSE host
      path == cspUrl.path
      hasPath == cspUrl.path # ""
      domain == url.domain
  IN /\ endsWith(domain, wildcardFreeHost)
     /\ hostHasWildcard \/ host = domain
     /\ hasPath =>
          IF endsWith(path, "/") THEN startsWith(url.path, path) ELSE url.path = path

\* The first match found in listOfUrls as an array of one element, the
\* empty array for null.
matchWildcardUrls(cspUrl, listOfUrls) ==
  LET matches == { i \in 1..Len(listOfUrls) : wildcardUrlMatches(cspUrl, listOfUrls[i]) }
  IN IF matches = {}
       THEN <<>>
       ELSE << listOfUrls[CHOOSE i \in matches : \A j \in matches : i <= j] >>

(***************************************************************************)
(* The allowlist-bypass lists, as the security-check tests set them, and   *)
(* the remaining security checks.                                          *)
(***************************************************************************)
jsonp_URLS ==
  << Uri("//googletagmanager.com/gtm/js"), Uri("//www.google.com/jsapi"),
     Uri("//ajax.googleapis.com/ajax/services/feed/load") >>

jsonp_NEEDS_EVAL == << "googletagmanager.com" >>

angular_URLS == << Uri("//gstatic.com/fsn/angular_js-bundle1.js") >>

flash_URLS ==
  << Uri("//ajax.googleapis.com/ajax/libs/yui/2.8.0r4/build/charts/assets/charts.swf") >>

URL_SCHEMES_CAUSING_XSS == << "data:", "http:", "https:" >>

\* [...new Set(arr)]: the first occurrence of every element, in order.
unique(arr) ==
  SelectSeq([ i \in 1..Len(arr) |-> [index |-> i, item |-> arr[i]] ],
            LAMBDA e : \A j \in 1..(e.index - 1) : arr[j] # e.item)

Csp_getEffectiveDirectives(parsedCsp, directives) ==
  LET effectiveDirectives ==
        unique([ i \in 1..Len(directives) |->
                   Csp_getEffectiveDirective(parsedCsp, directives[i]) ])
  IN [ i \in 1..Len(effectiveDirectives) |-> effectiveDirectives[i].item ]

\* The findings pushed for every directive of directivesToCheck, with
\* values = parsedCsp[directive] || [].
forEachDirectiveToCheck(parsedCsp, directivesToCheck, perDirective(_, _)) ==
  concat([ i \in 1..Len(directivesToCheck) |->
             perDirective(directivesToCheck[i],
                          valuesOrEmpty(parsedCsp, directivesToCheck[i])) ], <<>>)

checkScriptUnsafeEval(parsedCsp) ==
  LET directiveName == Csp_getEffectiveDirective(parsedCsp, SCRIPT_SRC)
      values == valuesOrEmpty(parsedCsp, directiveName)
  IN IF includes(values, UNSAFE_EVAL)
       THEN << Finding(Type_SCRIPT_UNSAFE_EVAL,
                 "'unsafe-eval' allows the execution of code injected into DOM APIs such as eval().",
                 Severity_MEDIUM_MAYBE, directiveName, UNSAFE_EVAL) >>
       ELSE <<>>

checkPlainUrlSchemes(parsedCsp) ==
  forEachDirectiveToCheck(parsedCsp,
    Csp_getEffectiveDirectives(parsedCsp, DIRECTIVES_CAUSING_XSS),
    LAMBDA directive, values :
      forEachValue(values, LAMBDA value :
        IF includes(URL_SCHEMES_CAUSING_XSS, value)
          THEN << Finding(Type_PLAIN_URL_SCHEMES,
                    value \o " URI in " \o directive
                      \o " allows the execution of unsafe scripts.",
                    Severity_HIGH, directive, value) >>
          ELSE <<>>))

checkWildcards(parsedCsp) ==
  forEachDirectiveToCheck(parsedCsp,
    Csp_getEffectiveDirectives(parsedCsp, DIRECTIVES_CAUSING_XSS),
    LAMBDA directive, values :
      forEachValue(values, LAMBDA value :
        IF getSchemeFreeUrl(value) = "*"
          THEN << Finding(Type_PLAIN_WILDCARD,
                    directive \o " should not allow '*' as source",
                    Severity_HIGH, directive, value) >>
          ELSE <<>>))

\* A JSONP match that counts whether or not the policy allows eval.
jsonpBypassIgnoringEval(jsonpMatch, scriptSrcValues) == jsonpMatch

\* The JSONP match that counts: none if the endpoint needs eval and the
\* policy does not allow 'unsafe-eval'.
jsonpBypassOf(jsonpMatch, scriptSrcValues) ==
  IF /\ jsonpMatch # <<>>
     /\ includes(jsonp_NEEDS_EVAL, jsonpMatch[1].domain)
     /\ ~includes(scriptSrcValues, UNSAFE_EVAL)
    THEN <<>> ELSE jsonpMatch

\* The finding pushed for a URL value, given what the bypass lists matched.
bypassFinding(angularBypass, jsonpBypass, effectiveScriptSrcDirective, value) ==
  LET bypassDomain ==
        IF angularBypass # <<>> THEN angularBypass[1].domain
        ELSE jsonpBypass[1].domain
      bypassTxt ==
        (IF jsonpBypass # <<>> THEN " JSONP endpoints" ELSE "")
        \o (IF angularBypass # <<>>
              THEN (IF jsonpBypass # <<>> THEN " and" ELSE "")
                   \o " Angular libraries"
              ELSE "")
  IN IF jsonpBypass # <<>> \/ angularBypass # <<>>
       THEN Finding(Type_SCRIPT_WHITELIST_BYPASS,
              bypassDomain \o " is known to host" \o bypassTxt
                \o " which allow to bypass this CSP.",
              Severity_HIGH, effectiveScriptSrcDirective, value)
       ELSE Finding(Type_SCRIPT_WHITELIST_BYPASS,
              "No bypass found; make sure that this URL doesn't serve JSONP replies or Angular libraries.",
              Severity_MEDIUM_MAYBE, effectiveScriptSrcDirective, value)

\* The finding pushed for a URL value of the effective script-src.
scriptWhitelistBypass(scriptSrcValues, effectiveScriptSrcDirective, value) ==
  LET url == Uri("//" \o getSchemeFreeUrl(value))
  IN bypassFinding(matchWildcardUrls(url, angular_URLS),
                   jsonpBypassOf(matchWildcardUrls(url, jsonp_URLS), scriptSrcValues),
                   effectiveScriptSrcDirective, value)

checkScriptWhitelistBypass(parsedCsp) ==
  LET effectiveScriptSrcDirective == Csp_getEffectiveDirective(parsedCsp, SCRIPT_SRC)
      scriptSrcValues == valuesOrEmpty(parsedCsp, effectiveScriptSrcDirective)
  IN IF includes(scriptSrcValues, NONE)
       THEN <<>>
       ELSE forEachValue(scriptSrcValues, LAMBDA value :
              IF value = SELF
                THEN << Finding(Type_SCRIPT_WHITELIST_BYPASS,
                          "'self' can be problematic if you host JSONP, Angular or user uploaded files.",
                          Severity_MEDIUM_MAYBE, effectiveScriptSrcDirective, value) >>
              ELSE IF startsWith(value, "'")
                THEN <<>>
              ELSE IF isUrlScheme(value) \/ indexOf(value, ".") = 0
                THEN <<>>
              ELSE << scriptWhitelistBypass(scriptSrcValues,
                                            effectiveScriptSrcDirective, value) >>)

\* The loop over objectSrcValues: 'none' returns [] whatever was pushed.
RECURSIVE flashObjectWhitelistBypass(_, _, _, _)
flashObjectWhitelistBypass(objectSrcValues, i, effectiveObjectSrcDirective, violations) ==
  IF i > Len(objectSrcValues)
    THEN violations
  ELSE IF objectSrcValues[i] = NONE
    THEN <<>>
  ELSE LET value == objectSrcValues[i]
           url == Uri("//" \o getSchemeFreeUrl(value))
           flashBypass == matchWildcardUrls(url, flash_URLS)
       IN flashObjectWhitelistBypass(objectSrcValues, i + 1,
            effectiveObjectSrcDirective,
            IF flashBypass # <<>>
              THEN Append(violations, Finding(Type_OBJECT_WHITELIST_BYPASS,
                     flashBypass[1].domain
                       \o " is known to host Flash files which allow to bypass this CSP.",
                     Severity_HIGH, effectiveObjectSrcDirective, value))
            ELSE IF effectiveObjectSrcDirective = OBJECT_SRC
              THEN Append(violations, Finding(Type_OBJECT_WHITELIST_BYPASS,
                     "Can you restrict object-src to 'none' only?",
                     Severity_MEDIUM_MAYBE, effectiveObjectSrcDirective, value))
            ELSE violations)

checkFlashObjectWhitelistBypass(parsedCsp) ==
  LET effectiveObjectSrcDirective == Csp_getEffectiveDirective(parsedCsp, OBJECT_SRC)
      objectSrcValues == valuesOrEmpty(parsedCsp, effectiveObjectSrcDirective)
  IN IF /\ hasDirective(parsedCsp, PLUGIN_TYPES)
        /\ ~includes(directiveValues(parsedCsp, PLUGIN_TYPES),
                     "application/x-shockwave-flash")
       THEN <<>>
       ELSE flashObjectWhitelistBypass(objectSrcValues, 1,
                                       effectiveObjectSrcDirective, <<>>)

\* s.split('.')
RECURSIVE splitOnDots(_)
splitOnDots(s) ==
  LET dot == indexOf(s, ".")
  IN IF dot = 0
       THEN << s >>
       ELSE << SubSeq(s, 1, dot - 1) >> \o splitOnDots(substringFrom(s, dot + 1))

\* The number written by the decimal digits of s.
RECURSIVE toNumber(_)
toNumber(s) ==
  IF s = ""
    THEN 0
    ELSE 10 * toNumber(SubSeq(s, 1, Len(s) - 1))
         + (CHOOSE d \in 0..9 : charAt(Digits, d + 1) = charAt(s, Len(s)))

\* goog.net.IpAddress.fromUriString(host) # null, for a host that is not
\* a bracketed IPv6 literal: four parts, each a decimal number of 0..255
\* written without a leading zero.  The string of the address is then host.
isIpAddress(host) ==
  LET ip == splitOnDots(host)
  IN /\ Len(ip) = 4
     /\ \A i \in 1..4 :
          /\ isDigits(ip[i])
          /\ Len(ip[i]) <= 3
          /\ toNumber(ip[i]) <= 255
          /\ Len(ip[i]) = 1 \/ ~startsWith(ip[i], "0")

checkIpSource(parsedCsp) ==
  forEachDirective(parsedCsp, LAMBDA directive, values :
    forEachValue(values, LAMBDA value :
      LET host == Uri("//" \o getSchemeFreeUrl(value)).domain
      IN IF ~isIpAddress(host)
           THEN <<>>
         ELSE IF host = "127.0.0.1"
           THEN << Finding(Type_IP_SOURCE,
                     directive \o " directive allows localhost as source. Please make sure to remove this in production environments.",
                     Severity_INFO, directive, value) >>
         ELSE << Finding(Type_IP_SOURCE,
                   directive \o " directive has an IP-Address as source: "
                     \o host \o " (will be ignored by browsers!). ",
                   Severity_INFO, directive, value) >>))

\* /^'nonce-[a-zA-Z0-9+\/_-]+[=]{0,2}'$/
isStrictNonce(v) ==
  /\ startsWith(v, "'nonce-") /\ endsWith(v, "'")
  /\ \E pad \in 0..2 :
       LET body == SubSeq(v, Len("'nonce-") + 1, Len(v) - 1 - pad)
       IN /\ Len(body) >= 1
          /\ \A i \in 1..Len(body) :
               inChars(charAt(body, i),
                       LowerCaseLetters \o UpperCaseLetters \o Digits \o "+/_-")
          /\ SubSeq(v, Len(v) - pad, Len(v) - 1) = SubSeq("==", 1, pad)

checkNonceLength(parsedCsp) ==
  forEachDirective(parsedCsp, LAMBDA directive, values :
    forEachValue(values, LAMBDA value :
      IF ~isNonce(value)
        THEN <<>>
        ELSE (IF Len(value) - Len("'nonce-") - 1 < 8
                THEN << Finding(Type_NONCE_LENGTH,
                          "Nonces should be at least 8 characters long.",
                          Severity_MEDIUM, directive, value) >>
                ELSE <<>>)
             \o (IF ~isStrictNonce(value)
                   THEN << Finding(Type_NONCE_LENGTH,
                             "Nonces should only use the base64 charset.",
                             Severity_INFO, directive, value) >>
                   ELSE <<>>)))

checkSrcHttp(parsedCsp) ==
  forEachDirective(parsedCsp, LAMBDA directive, values :
    forEachValue(values, LAMBDA value :
      IF startsWith(value, "http://")
        THEN << Finding(Type_SRC_HTTP,
                  IF directive = REPORT_URI
                    THEN "Use HTTPS to send violation reports securely."
                    ELSE "Allow only resources downloaded over HTTPS.",
                  Severity_MEDIUM, directive, value) >>
        ELSE <<>>))

\* A check with an implementation bug: calling it throws.
throws(check) == check = "throwingVerifier"

\* Calling a check function that returns.
call(check, parsedCsp) ==
  CASE check = "fakeVerifier" -> fakeVerifier(parsedCsp)
    [] check = "checkScriptUnsafeInline" -> checkScriptUnsafeInline(parsedCsp)
    [] check = "checkMissingDirectives" -> checkMissingDirectives(parsedCsp)
    [] check = "checkScriptUnsafeEval" -> checkScriptUnsafeEval(parsedCsp)
    [] check = "checkPlainUrlSchemes" -> checkPlainUrlSchemes(parsedCsp)
    [] check = "checkWildcards" -> checkWildcards(parsedCsp)
    [] check = "checkScriptWhitelistBypass" -> checkScriptWhitelistBypass(parsedCsp)
    [] check = "checkFlashObjectWhitelistBypass" ->
         checkFlashObjectWhitelistBypass(parsedCsp)
    [] check = "checkIpSource" -> checkIpSource(parsedCsp)
    [] check = "checkNonceLength" -> checkNonceLength(parsedCsp)
    [] check = "checkSrcHttp" -> checkSrcHttp(parsedCsp)
    [] check = "checkUnknownDirective" -> checkUnknownDirective(parsedCsp)
    [] check = "checkMissingSemicolon" -> checkMissingSemicolon(parsedCsp)
    [] check = "checkInvalidKeyword" -> checkInvalidKeyword(parsedCsp)

(***************************************************************************)
(* csp.CspEvaluator.  An optional argument is [given, value]; the value of *)
(* an omitted argument is never read.                                      *)
(***************************************************************************)
omitted(placeholder) == [given |-> FALSE, value |-> placeholder]

given(value) == [given |-> TRUE, value |-> value]

\* The constructor: this.version = opt_cspVersion || CSP3.
CspEvaluator(parsedCsp, opt_cspVersion) ==
  [ csp |-> parsedCsp,
    version |-> IF opt_cspVersion.given /\ opt_cspVersion.value # 0
                  THEN opt_cspVersion.value
                  ELSE CSP3,
    findings |-> <<>> ]

\* for (let check of checks) findings = findings.concat(check(parsedCsp))
\* st is [thrown, findings]: whether an exception is propagating, and
\* this.findings.  A check that throws ends the loop before the assignment.
RECURSIVE runChecks(_, _, _, _)
runChecks(checks, i, parsedCsp, st) ==
  IF st.thrown \/ i > Len(checks)
    THEN st
    ELSE runChecks(checks, i + 1, parsedCsp,
           IF throws(checks[i])
             THEN [st EXCEPT !.thrown = TRUE]
             ELSE [st EXCEPT !.findings = @ \o call(checks[i], parsedCsp)])

\* The two loops of evaluate: the checks independent of the CSP version on
\* parsedCsp, then the checks on effectiveCsp.
runBothBatches(opt_parsedCspChecks, parsedCsp, checks, effectiveCsp, fs) ==
  runChecks(checks, 1, effectiveCsp,
    IF opt_parsedCspChecks.given
      THEN runChecks(opt_parsedCspChecks.value, 1, parsedCsp,
                     [thrown |-> FALSE, findings |-> fs])
      ELSE [thrown |-> FALSE, findings |-> fs])

\* The result of evaluate after the resolver call r, with the
\* version-dependent checks run on the parsed policy.
evaluateParsedOnly(h, this, r, opt_parsedCspChecks, effectiveCspChecks) ==
  LET st == runBothBatches(opt_parsedCspChecks, h[this.csp],
                            effectiveCspChecks, h[this.csp], r.findings)
  IN [ heap |-> r.heap,
       effectiveCsp |-> r.refs[1],
       opt_findings |-> r.findings,
       findings |-> st.findings,
       thrown |-> st.thrown ]

\* The result of evaluate after the resolver call r: the heap, the effective
\* policy, the array handed to the resolver, this.findings at the end of the
\* call and whether the call ended with an exception instead of returning.
evaluateAfter(h, this, r, opt_parsedCspChecks, effectiveCspChecks) ==
  LET st == runBothBatches(opt_parsedCspChecks, h[this.csp],
                            effectiveCspChecks, r.heap[r.refs[1]], r.findings)
  IN [ heap |-> r.heap,
       effectiveCsp |-> r.refs[1],
       opt_findings |-> r.findings,
       findings |-> st.findings,
       thrown |-> st.thrown ]

\* csp.CspEvaluator.DEFAULT_CHECKS: the security checks, then the parser
\* checks.
DEFAULT_CHECKS ==
  << "checkScriptUnsafeInline", "checkScriptUnsafeEval", "checkPlainUrlSchemes",
     "checkWildcards", "checkMissingDirectives", "checkScriptWhitelistBypass",
     "checkFlashObjectWhitelistBypass", "checkIpSource", "checkNonceLength",
     "checkSrcHttp", "checkUnknownDirective", "checkMissingSemicolon",
     "checkInvalidKeyword" >>

\* var checks = opt_effectiveCspChecks || DEFAULT_CHECKS: an array, even an
\* empty one, is truthy.
effectiveChecks(opt_effectiveCspChecks) ==
  IF opt_effectiveCspChecks.given
    THEN opt_effectiveCspChecks.value
    ELSE DEFAULT_CHECKS

\* An evaluate that does not empty this.findings at the start of the call.
CspEvaluator_evaluateAccumulating(h, this, opt_parsedCspChecks, opt_effectiveCspChecks) ==
  evaluateAfter(h, this,
                Csp_getEffectiveCsp(h, this.csp, this.version, this.findings),
                opt_parsedCspChecks, effectiveChecks(opt_effectiveCspChecks))

\* evaluate: the resolver gets this.findings, emptied at the start of the
\* call; every check of checks is then run on the effective policy.
CspEvaluator_evaluate(h, this, opt_parsedCspChecks, opt_effectiveCspChecks) ==
  evaluateAfter(h, this, Csp_getEffectiveCsp(h, this.csp, this.version, <<>>),
                opt_parsedCspChecks, effectiveChecks(opt_effectiveCspChecks))

(***************************************************************************)
(* The inputs: parser-produced collections.  Directive names are lowercase *)
(* and unique within a policy, values are unique within a directive.  A    *)
(* collection holds one policy whose script-src or default-src takes every *)
(* ordered list of up to MaxValues values, and up to MaxPolicies - 1 other *)
(* policies, before or after it, drawn from OtherPolicies.                 *)
(***************************************************************************)
ScriptValues ==
  { UNSAFE_INLINE, STRICT_DYNAMIC, "'nonce-123'", "'sha256-foobar'", SELF,
    "foo.bar" }

\* The lists of up to n different values.
ValueLists(values, n) ==
  UNION { { s \in [1..k -> values] :
              \A i, j \in 1..k : i # j => s[i] # s[j] } : k \in 0..n }

entry(name, values) == [name |-> name, values |-> values]

Csp3Directives ==
  << entry(REPORT_TO, <<"foo.bar">>), entry(WORKER_SRC, <<"*">>),
     entry(MANIFEST_SRC, <<"*">>), entry(TRUSTED_TYPES, <<>>),
     entry(REQUIRE_TRUSTED_TYPES_FOR, <<"'script'">>) >>

AttrElemDirectives ==
  << entry(SCRIPT_SRC_ATTR, <<SELF>>), entry(SCRIPT_SRC_ELEM, <<SELF>>),
     entry(STYLE_SRC_ATTR, <<SELF>>), entry(STYLE_SRC_ELEM, <<SELF>>) >>

\* A policy with default-src alone or script-src alone, or one with
\* default-src, script-src and every version-dependent directive.
Policies ==
  { <<entry(d, l)>> :
      d \in {DEFAULT_SRC, SCRIPT_SRC}, l \in ValueLists(ScriptValues, MaxValues) }
  \cup { <<entry(DEFAULT_SRC, <<NONE>>), entry(SCRIPT_SRC, l)>>
            \o AttrElemDirectives \o Csp3Directives :
          l \in ValueLists(ScriptValues, MaxValues - 1) }

OtherPolicies == { <<>>, <<entry(SCRIPT_SRC, <<SELF>>)>> }

\* The collection with p at position pos + 1 among the other policies.
collection(p, others, pos) ==
  SubSeq(others, 1, pos) \o <<p>> \o SubSeq(others, pos + 1, Len(others))

\* The three versions, and the ordinals just below and just above them.
Versions == (CSP1 - 1)..(CSP3 + 1)

(***************************************************************************)
(* The state machine.                                                      *)
(***************************************************************************)
NoCall == [op |-> "none", version |-> 0, returned |-> FALSE]

NoEvaluator == [csp |-> 0, version |-> 0, findings |-> <<>>]

\* The collection was not parsed from header strings of the model.
NoHeaders == [isArray |-> TRUE, headers |-> <<>>]

Init ==
  /\ \/ heap = <<>>
     \/ \E m \in 0..(MaxPolicies - 1) :
          \E p \in Policies, others \in [1..m -> OtherPolicies], pos \in 0..m :
            heap = collection(p, others, pos)
  /\ csps = array([i \in 1..Len(heap) |-> i])
  /\ effective = <<>>
  /\ findings = <<>>
  /\ evaluator = NoEvaluator
  /\ last = NoCall
  /\ unparsedCsps = NoHeaders
  /\ running = <<>>

\* The policies a collection refers to.
deref(h, refs) == array([i \in 1..Len(refs) |-> h[refs[i]]])

\* The objects still referred to by the parsed collection; the result of an
\* earlier call is garbage once the next call starts.
live == SubSeq(heap, 1, Len(csps))

\* csps.getEffectiveCsps(cspVersion, findings) with a fresh findings array.
GetEffectiveCsps(cspVersion) ==
  \E r \in {getEffectiveCsps(live, csps, cspVersion, <<>>)} :
     /\ heap' = r.heap
     /\ effective' = r.refs
     /\ findings' = r.findings
     /\ last' = [op |-> "getEffectiveCsps", version |-> cspVersion,
                 returned |-> TRUE]
     /\ UNCHANGED <<csps, evaluator, unparsedCsps, running>>

Next == \E v \in Versions : GetEffectiveCsps(v)

Spec == Init /\ [][Next]_vars

(***************************************************************************)
(* The state machine of csp.CspEvaluator: one parsed policy, an evaluator  *)
(* constructed for it, and calls of evaluate and of the resolver           *)
(* csp.Csp.getEffectiveCsp.                                                *)
(***************************************************************************)
OptVersions == { omitted(0) } \cup { given(v) : v \in 0..CSP3 }

ParsedCheckLists ==
  { omitted(<<>>),
    given(<<"fakeVerifier", "fakeVerifier">>),
    given(<<"checkScriptUnsafeInline", "checkMissingDirectives">>),
    given(<<"fakeVerifier", "throwingVerifier", "fakeVerifier">>) }

EffectiveCheckLists ==
  { given(<<>>),
    given(<<"fakeVerifier">>),
    given(<<"checkMissingDirectives", "checkScriptUnsafeInline">>),
    given(<<"throwingVerifier", "checkMissingDirectives">>) }

\* The arguments of evaluate: both lists omitted (the default evaluation),
\* or a list of effective checks with or without a list of parsed checks.
EvaluateArguments ==
  { <<omitted(<<>>), omitted(<<>>)>> }
  \cup (ParsedCheckLists \X EffectiveCheckLists)

\* The parsed policies handed to an evaluator.
EvaluatorValues == { UNSAFE_INLINE, STRICT_DYNAMIC, "'nonce-123'", SELF }

\* Policies written with a mistake: a directive name among the values (a
\* forgotten semicolon), a keyword without its quotes, an unknown directive.
MistakenPolicies ==
  { <<entry(SCRIPT_SRC, <<STRICT_DYNAMIC, "'nonce-123'", "object-src">>)>>,
    <<entry(SCRIPT_SRC, <<"'nonce-123'", "object-src", "self">>),
      entry("foobar-src", <<>>)>>,
    <<entry(DEFAULT_SRC, <<STRICT_DYNAMIC, "unsafe-inline">>),
      entry(TRUSTED_TYPES, <<NONE>>)>> }

EvaluatorPolicies ==
  { <<entry(d, l)>> :
      d \in {DEFAULT_SRC, SCRIPT_SRC}, l \in ValueLists(EvaluatorValues, MaxValues) }
  \cup MistakenPolicies

InitJs ==
  /\ \E p \in EvaluatorPolicies : heap = <<p>>
  /\ csps = <<1>>
  /\ effective = <<>>
  /\ findings = <<>>
  /\ \E opt_cspVersion \in OptVersions :
       evaluator = CspEvaluator(csps[1], opt_cspVersion)
  /\ last = NoCall
  /\ unparsedCsps = NoHeaders
  /\ running = <<>>

\* evaluator.evaluate(opt_parsedCspChecks, opt_effectiveCspChecks); last
\* records the checks the call ran on the effective policy.
Evaluate(opt_parsedCspChecks, opt_effectiveCspChecks) ==
  \E r \in {CspEvaluator_evaluate(live, evaluator, opt_parsedCspChecks,
                                  opt_effectiveCspChecks)} :
     /\ heap' = r.heap
     /\ effective' = <<r.effectiveCsp>>
     /\ findings' = r.opt_findings
     /\ evaluator' = [evaluator EXCEPT !.findings = r.findings]
     /\ last' = [op |-> "evaluate", version |-> evaluator.version,
                 returned |-> ~r.thrown,
                 parsedCspChecks |-> opt_parsedCspChecks,
                 effectiveCspChecks |-> effectiveChecks(opt_effectiveCspChecks),
                 defaultChecks |-> ~opt_effectiveCspChecks.given]
     /\ UNCHANGED <<csps, unparsedCsps, running>>

\* csp.Csp.getEffectiveCsp(csp, cspVersion, findings) with a fresh findings
\* array.
GetEffectiveCsp(cspVersion) ==
  \E r \in {Csp_getEffectiveCsp(live, csps[1], cspVersion, <<>>)} :
     /\ heap' = r.heap
     /\ effective' = r.refs
     /\ findings' = r.findings
     /\ last' = [op |-> "getEffectiveCsp", version |-> cspVersion,
                 returned |-> TRUE]
     /\ UNCHANGED <<csps, evaluator, unparsedCsps, running>>

NextJs ==
  \/ \E args \in EvaluateArguments : Evaluate(args[1], args[2])
  \/ \E v \in Versions : GetEffectiveCsp(v)

SpecJs == InitJs /\ [][NextJs]_vars

(***************************************************************************)
(* Properties of the resolver.  They speak about the state after a call:   *)
(* policy i of the parsed collection, its own effective script-src (the    *)
(* one determined from that policy alone), and policy i of the collection  *)
(* the call returned.                                                      *)
(***************************************************************************)
ValidVersions == {CSP1, CSP2, CSP3}

Resolved(versions) == last.op = "getEffectiveCsps" /\ last.version \in versions

parsedPolicy(i) == heap[csps[i]]

effectivePolicy(i) == heap[effective[i]]

ownDirective(i) == Csp_getEffectiveDirective(parsedPolicy(i), SCRIPT_SRC)

declaresOwnDirective(i) == hasDirective(parsedPolicy(i), ownDirective(i))

ownValues(i) == valuesOrEmpty(parsedPolicy(i), ownDirective(i))

effectiveValues(i) == valuesOrEmpty(effectivePolicy(i), ownDirective(i))

hasNonceOrHash(values) ==
  \E j \in 1..Len(values) : isNonce(values[j]) \/ isHash(values[j])

occurrences(f) == Cardinality({ j \in 1..Len(findings) : findings[j] = f })

\* C1: a resolver call never changes the parsed collection: after every
\* call it holds the same policies in the same order, each with the same
\* directives and the same ordered value lists as before the call.
InputNeverMutated == [][deref(heap', csps') = deref(heap, csps)]_vars

\* C1, witness: a call at a valid version returned a collection that differs
\* from the parsed one.
InputNeverMutatedWitness ==
  /\ Resolved(ValidVersions)
  /\ deref(heap, effective) # deref(heap, csps)

\* The effective policy of a policy resolved on its own.
resolvedAlone(policy, cspVersion) ==
  LET r == getEffectiveCsps(<<policy>>, <<1>>, cspVersion, <<>>)
  IN r.heap[r.refs[1]]

\* C2: the rules apply to each policy independently: policy i of the
\* effective collection equals the effective policy of the collection that
\* holds policy i alone.
RulesApplyPerPolicy ==
  Resolved(ValidVersions) =>
    \A i \in 1..Len(csps) :
      effectivePolicy(i) = resolvedAlone(parsedPolicy(i), last.version)

\* C3: at version 2 or 3, when a policy's own effective script-src holds a
\* nonce or a hash together with 'unsafe-inline', the effective directive no
\* longer holds 'unsafe-inline' and the rule's IGNORED finding (severity NONE,
\* that directive, 'unsafe-inline') is recorded; without nonce and hash the
\* rule keeps 'unsafe-inline' (only the strict-dynamic rule of version 3 may
\* remove it) and records no such finding.
UnsafeInlineIgnoredWithNonceOrHash ==
  Resolved({CSP2, CSP3}) =>
    \A i \in 1..Len(csps) :
      declaresOwnDirective(i) /\ includes(ownValues(i), UNSAFE_INLINE) =>
        LET f == Finding(Type_IGNORED, UNSAFE_INLINE_IGNORED, Severity_NONE,
                         ownDirective(i), UNSAFE_INLINE)
        IN IF hasNonceOrHash(ownValues(i))
             THEN /\ ~includes(effectiveValues(i), UNSAFE_INLINE)
                  /\ includes(findings, f)
             ELSE /\ \/ includes(effectiveValues(i), UNSAFE_INLINE)
                     \/ /\ last.version = CSP3
                        /\ includes(ownValues(i), STRICT_DYNAMIC)
                  /\ ~includes(findings, f)

\* C4: at version 1, when a policy's own effective script-src holds a nonce
\* or a hash, no value beginning with 'nonce- or 'sha is left in the effective
\* directive, 'unsafe-inline' is kept, and no finding is recorded.
NoncesAndHashesRemovedInCsp1 ==
  Resolved({CSP1}) =>
    \A i \in 1..Len(csps) :
      declaresOwnDirective(i) /\ hasNonceOrHash(ownValues(i)) =>
        /\ \A j \in 1..Len(effectiveValues(i)) :
             /\ ~startsWith(effectiveValues(i)[j], "'nonce-")
             /\ ~startsWith(effectiveValues(i)[j], "'sha")
        /\ includes(ownValues(i), UNSAFE_INLINE) =>
             includes(effectiveValues(i), UNSAFE_INLINE)
        /\ findings = <<>>

\* The values the strict-dynamic rule ignores at version 3.
ignoredByStrictDynamic(v) ==
  ~startsWith(v, "'") \/ v = SELF \/ v = UNSAFE_INLINE

\* C5: at version 3, when a policy's own effective script-src holds
\* 'strict-dynamic', the effective directive holds exactly the values that
\* start with a quote and are neither 'self' nor 'unsafe-inline', in their
\* original order, and the rule records exactly one IGNORED finding (severity
\* NONE, that directive, that value) for each removed value.
AllowlistIgnoredWithStrictDynamic ==
  Resolved({CSP3}) =>
    \A i \in 1..Len(csps) :
      declaresOwnDirective(i) /\ includes(ownValues(i), STRICT_DYNAMIC) =>
        /\ effectiveValues(i) =
             SelectSeq(ownValues(i), LAMBDA v : ~ignoredByStrictDynamic(v))
        /\ \A j \in 1..Len(ownValues(i)) :
             ignoredByStrictDynamic(ownValues(i)[j]) =>
               occurrences(Finding(Type_IGNORED, ALLOWLIST_IGNORED, Severity_NONE,
                                   ownDirective(i), ownValues(i)[j])) = 1

\* C6: at version 1 or 2, when a policy's own effective script-src holds
\* 'strict-dynamic', the effective directive no longer holds it, no finding
\* names it, and the host and 'self' values of the directive are kept.
StrictDynamicRemovedBeforeCsp3 ==
  Resolved({CSP1, CSP2}) =>
    \A i \in 1..Len(csps) :
      declaresOwnDirective(i) /\ includes(ownValues(i), STRICT_DYNAMIC) =>
        /\ ~includes(effectiveValues(i), STRICT_DYNAMIC)
        /\ \A j \in 1..Len(findings) : findings[j].value # STRICT_DYNAMIC
        /\ \A j \in 1..Len(ownValues(i)) :
             ~startsWith(ownValues(i)[j], "'") \/ ownValues(i)[j] = SELF =>
               includes(effectiveValues(i), ownValues(i)[j])

Csp3DirectiveNames ==
  { REPORT_TO, WORKER_SRC, MANIFEST_SRC, TRUSTED_TYPES, REQUIRE_TRUSTED_TYPES_FOR }

AttrElemDirectiveNames ==
  { SCRIPT_SRC_ATTR, SCRIPT_SRC_ELEM, STYLE_SRC_ATTR, STYLE_SRC_ELEM }

\* Directive d of parsed policy i is in effective policy i with the same values.
keptUnchanged(i, d) ==
  /\ hasDirective(effectivePolicy(i), d)
  /\ directiveValues(effectivePolicy(i), d) = directiveValues(parsedPolicy(i), d)

\* C7: at version 1 or 2 no effective policy holds report-to, worker-src,
\* manifest-src, trusted-types or require-trusted-types-for; at version 3
\* each of them that a parsed policy declares is in the corresponding
\* effective policy with unchanged values.
Csp3DirectivesRemovedBeforeCsp3 ==
  /\ Resolved({CSP1, CSP2}) =>
       \A i \in 1..Len(csps) : \A d \in Csp3DirectiveNames :
         ~hasDirective(effectivePolicy(i), d)
  /\ Resolved({CSP3}) =>
       \A i \in 1..Len(csps) : \A d \in Csp3DirectiveNames :
         hasDirective(parsedPolicy(i), d) => keptUnchanged(i, d)

\* C7, witness: a call at version 1 or 2 on a collection with a policy that
\* declares all five directives.
Csp3DirectivesRemovedBeforeCsp3Witness ==
  /\ Resolved({CSP1, CSP2})
  /\ \E i \in 1..Len(csps) : \A d \in Csp3DirectiveNames :
       hasDirective(parsedPolicy(i), d)

\* C8: at version 2 the effective policy of a policy that declares
\* script-src-attr, script-src-elem, style-src-attr and style-src-elem holds
\* none of the four; at version 3 it holds all four with unchanged values.
AttrElemDirectivesRemovedInCsp2 ==
  \A i \in 1..Len(csps) :
    (\A d \in AttrElemDirectiveNames : hasDirective(parsedPolicy(i), d)) =>
      /\ Resolved({CSP2}) =>
           \A d \in AttrElemDirectiveNames : ~hasDirective(effectivePolicy(i), d)
      /\ Resolved({CSP3}) =>
           \A d \in AttrElemDirectiveNames : keptUnchanged(i, d)

\* C9: a call with a version other than 1, 2 and 3 fails: it returns no
\* effective collection and records no finding.
InvalidVersionFailsFast ==
  last.op = "getEffectiveCsps" /\ last.version \notin ValidVersions =>
    ~last.returned /\ findings = <<>>

(***************************************************************************)
(* Properties of evaluate.  After a call, effective[1] is the effective    *)
(* policy the call computed and findings is the array it handed to the     *)
(* resolver.                                                               *)
(***************************************************************************)
RECURSIVE batch(_, _)
batch(checks, csp) ==
  IF checks = <<>>
    THEN <<>>
    ELSE call(Head(checks), csp) \o batch(Tail(checks), csp)

parsedBatch ==
  IF last.parsedCspChecks.given
    THEN batch(last.parsedCspChecks.value, heap[evaluator.csp])
    ELSE <<>>

effectiveBatch == batch(last.effectiveCspChecks, heap[effective[1]])

\* C10, as stated: evaluate returns the results of the version-independent
\* checks on the parsed policy followed by the results of the
\* version-dependent checks on the effective policy, and nothing else.
EvaluateReturnsBothBatches ==
  last.op = "evaluate" /\ last.returned =>
    evaluator.findings = parsedBatch \o effectiveBatch

\* C10, amended: evaluate returns the findings the resolver recorded for the
\* evaluator's version, then the results of the version-independent checks
\* on the parsed policy, then the results of the version-dependent checks on
\* the effective policy, each list in its own order.
EvaluateReturnsIgnoredThenBothBatches ==
  last.op = "evaluate" /\ last.returned =>
    evaluator.findings = findings \o parsedBatch \o effectiveBatch

\* C10, witness: a call in which the resolver recorded a finding, the
\* version-independent checks returned several and the version-dependent
\* checks returned a different list.
EvaluateReturnsIgnoredThenBothBatchesWitness ==
  /\ last.op = "evaluate"
  /\ last.returned
  /\ findings # <<>>
  /\ Len(parsedBatch) > 1
  /\ effectiveBatch # <<>>
  /\ effectiveBatch # parsedBatch

\* The checks of both lists of the last evaluate call, in the order of the
\* call: [check, csp] with csp the policy the check is run on.
calledChecks ==
  LET parsed == IF last.parsedCspChecks.given
                  THEN last.parsedCspChecks.value ELSE <<>>
  IN [ i \in 1..Len(parsed) |->
         [check |-> parsed[i], csp |-> heap[evaluator.csp]] ]
     \o [ i \in 1..Len(last.effectiveCspChecks) |->
            [check |-> last.effectiveCspChecks[i], csp |-> heap[effective[1]]] ]

\* The findings of the checks of c that return, in order.
RECURSIVE findingsOfOthers(_)
findingsOfOthers(c) ==
  IF c = <<>>
    THEN <<>>
    ELSE (IF throws(Head(c).check) THEN <<>> ELSE call(Head(c).check, Head(c).csp))
         \o findingsOfOthers(Tail(c))

\* f is a subsequence of g.
RECURSIVE isSubsequence(_, _)
isSubsequence(f, g) ==
  IF f = <<>> THEN TRUE
  ELSE IF g = <<>> THEN FALSE
  ELSE IF Head(f) = Head(g) THEN isSubsequence(Tail(f), Tail(g))
  ELSE isSubsequence(f, Tail(g))

\* C11: a check that throws does not abort the evaluation: every evaluate
\* call returns, the findings of every other check of both lists are in the
\* returned list, in order, and the list holds one more finding (the
\* internal-error finding) for each check that threw.
ThrowingCheckDoesNotAbort ==
  last.op = "evaluate" =>
    /\ last.returned
    /\ isSubsequence(findingsOfOthers(calledChecks), evaluator.findings)
    /\ Len(evaluator.findings) =
         Len(findings) + Len(findingsOfOthers(calledChecks))
         + Cardinality({ i \in 1..Len(calledChecks) : throws(calledChecks[i].check) })

(***************************************************************************)
(* The parser checks in the default evaluation.                            *)
(***************************************************************************)
PARSER_CHECKS ==
  << "checkUnknownDirective", "checkMissingSemicolon", "checkInvalidKeyword" >>

\* A finding of one of the parser checks.
isParserFinding(f) ==
  f.type \in {Type_MISSING_SEMICOLON, Type_UNKNOWN_DIRECTIVE, Type_INVALID_KEYWORD}

\* The last call was evaluate() with neither list of checks given.
defaultEvaluation ==
  /\ last.op = "evaluate"
  /\ last.returned
  /\ last.defaultChecks
  /\ ~last.parsedCspChecks.given

\* C12: in the default evaluation the parser-check findings that evaluate
\* returns are those of the parser checks on the parsed policy, whatever the
\* evaluator's version and whatever the effective policy of that version
\* dropped.
ParserFindingsIndependentOfVersion ==
  defaultEvaluation =>
    SelectSeq(evaluator.findings, isParserFinding)
      = batch(PARSER_CHECKS, heap[evaluator.csp])

(***************************************************************************)
(* The parser (CspParser) and the serializer (convertToString,             *)
(* convertToStrings), over strings.  A parsed policy is its directives in  *)
(* insertion order, which is the order of Object.keys for the directive    *)
(* names of the model (none is an integer index).                          *)
(***************************************************************************)
\* ASCII whitespace as matched by \s and removed by trim.
Whitespace == " \t\n\r\f"

\* String.prototype.split with a non-empty separator.
RECURSIVE split(_, _)
split(s, separator) ==
  LET at == indexOf(s, separator)
  IN IF at = 0
       THEN << s >>
       ELSE << SubSeq(s, 1, at - 1) >>
            \o split(substringFrom(s, at + Len(separator)), separator)

\* Array.prototype.join
RECURSIVE join(_, _)
join(arr, separator) ==
  IF arr = <<>> THEN ""
  ELSE IF Len(arr) = 1 THEN arr[1]
  ELSE arr[1] \o separator \o join(Tail(arr), separator)

RECURSIVE trimStart(_)
trimStart(s) ==
  IF s # "" /\ inChars(charAt(s, 1), Whitespace)
    THEN trimStart(substringFrom(s, 2))
    ELSE s

RECURSIVE trimEnd(_)
trimEnd(s) ==
  IF s # "" /\ inChars(charAt(s, Len(s)), Whitespace)
    THEN trimEnd(SubSeq(s, 1, Len(s) - 1))
    ELSE s

\* String.prototype.trim
trim(s) == trimEnd(trimStart(s))

\* s.match(/\S+/g): the maximal runs of non-whitespace characters; the empty
\* array stands for null.
RECURSIVE matchNonWhitespace(_)
matchNonWhitespace(s) ==
  LET t == trimStart(s)
      end == firstOf(t, Whitespace)
  IN IF t = "" THEN <<>>
     ELSE IF end = 0 THEN << t >>
     ELSE << SubSeq(t, 1, end - 1) >> \o matchNonWhitespace(substringFrom(t, end))

\* Characters outside \x00-\xFF that occur in the inputs of the model.
NonLatin1 == "€"

\* /^[\x00-\xFF]*$/.test(s)
isLatin1(s) == \A i \in 1..Len(s) : ~inChars(charAt(s, i), NonLatin1)

\* A normalization that leaves the case of every value alone.
normalizeKeepingCase(directiveValue) == trim(directiveValue)

\* normalizeDirectiveValue
normalizeDirectiveValue(directiveValue) ==
  LET value == trim(directiveValue)
      directiveValueLower == toLowerCase(value)
  IN IF isKeyword(directiveValueLower) \/ isUrlScheme(value)
       THEN directiveValueLower
       ELSE value

\* The properties every object inherits from Object.prototype whose names
\* are lowercase.
ObjectPrototypeKeys == { "constructor", "__proto__" }

\* key in obj, for an object created by {}: an own property or an inherited
\* one.
inObject(key, obj) == hasDirective(obj, key) \/ key \in ObjectPrototypeKeys

\* The inner loop of parseCsp: the values of directiveParts from index j,
\* normalized, appended to directiveValues unless already there.
RECURSIVE parseValues(_, _, _)
parseValues(directiveParts, j, valuesSoFar) ==
  IF j > Len(directiveParts)
    THEN valuesSoFar
    ELSE LET directiveValue == normalizeDirectiveValue(directiveParts[j])
         IN parseValues(directiveParts, j + 1,
              IF includes(valuesSoFar, directiveValue)
                THEN valuesSoFar
                ELSE Append(valuesSoFar, directiveValue))

\* The outer loop of parseCsp over the directive tokens from index i.
RECURSIVE parseTokens(_, _, _)
parseTokens(directiveTokens, i, retCspDirectives) ==
  IF i > Len(directiveTokens)
    THEN retCspDirectives
    ELSE
      LET directiveToken == trim(directiveTokens[i])
          directiveParts == matchNonWhitespace(directiveToken)
          directiveName == toLowerCase(directiveParts[1])
      IN parseTokens(directiveTokens, i + 1,
           IF directiveToken = "" \/ ~isLatin1(directiveToken)
             THEN retCspDirectives
           ELSE IF directiveParts = <<>>
             THEN retCspDirectives
           ELSE IF inObject(directiveName, retCspDirectives)
             THEN retCspDirectives
           ELSE Append(retCspDirectives,
                       entry(directiveName, parseValues(directiveParts, 2, <<>>))))

\* A parseCsp in which the last directive token of a name wins.
parseCspLastWins(unparsedCsp) ==
  LET directiveTokens == split(unparsedCsp, ";")
  IN parseTokens([ i \in 1..Len(directiveTokens) |->
                     directiveTokens[Len(directiveTokens) + 1 - i] ], 1, <<>>)

\* CspParser.parseCsp
parseCsp(unparsedCsp) == parseTokens(split(unparsedCsp, ";"), 1, <<>>)

\* A parse that merges the segments into one policy.
parseIntoOnePolicy(unparsedCsp) ==
  << parseTokens(concat([ i \in 1..Len(split(unparsedCsp, ", ")) |->
                            split(split(unparsedCsp, ", ")[i], ";") ], <<>>),
                 1, <<>>) >>

\* CspParser.parse: one policy for each segment between comma-space.
parse(unparsedCsp) ==
  LET segments == split(unparsedCsp, ", ")
  IN array([ i \in 1..Len(segments) |-> parseCsp(segments[i]) ])

\* mergeCspHeaders: the header strings as one string in the legacy
\* comma-separated syntax.
mergeCspHeaders(headers) == join(headers, ", ")

\* new CspParser(unparsedCsps): the parsed collection.
CspParser(unparsed) ==
  IF unparsed.isArray
    THEN parse(mergeCspHeaders(unparsed.headers))
    ELSE parse(unparsed.headers[1])

\* csp.Csp.convertToString
convertToString(parsedCsp) ==
  concat([ d \in 1..Len(parsedCsp) |->
             parsedCsp[d].name
             \o concat([ i \in 1..Len(parsedCsp[d].values) |->
                           " " \o parsedCsp[d].values[i] ], "")
             \o "; " ], "")

\* EnforcedCsps.convertToStrings
convertToStrings(policies) ==
  array([ i \in 1..Len(policies) |-> convertToString(policies[i]) ])

(***************************************************************************)
(* The state machine of the parser: header strings are parsed into a       *)
(* collection, a collection is serialized into header strings, which can   *)
(* be parsed again.  The header strings hold up to MaxTokens directive     *)
(* tokens: a name in lower or mixed case followed by values (a keyword in  *)
(* either case, a scheme in upper case, a host ending in a comma).  The    *)
(* first token has up to MaxWords values, separated by spaces or by tabs,  *)
(* the later ones up to one value; a token is separated from the one       *)
(* before it by a semicolon and a space or by the legacy comma-space, or   *)
(* starts the next header string.                                          *)
(***************************************************************************)
ParserNames == { "script-src", "SCRIPT-src", "img-src" }

ParserValues == { "'self'", "'SELF'", "HTTPS:", "Foo.bar," }

TokenSeparators == { "; ", ", " }

\* The directive tokens with up to n values separated by ws, the empty
\* token, a token with a character outside Latin-1 and a token named as a
\* property of Object.prototype.
DirectiveTokens(ws, n) ==
  { name \o concat([ i \in 1..Len(l) |-> ws \o l[i] ], "") :
      name \in ParserNames, l \in ValueLists(ParserValues, n) }
  \cup { "", "default-src €", "constructor 'self'" }

\* The directive tokens with several values separated by tabs.
TabbedTokens ==
  { t \in DirectiveTokens("\t", MaxWords) : Len(split(t, "\t")) > 2 }

\* The lists of header strings with n tokens.
RECURSIVE HeaderLists(_)
HeaderLists(n) ==
  IF n = 1
    THEN { << t >> : t \in DirectiveTokens(" ", MaxWords) \cup TabbedTokens }
    ELSE UNION { { [h EXCEPT ![Len(h)] = @ \o sep \o u] : sep \in TokenSeparators }
                 \cup { Append(h, u) } :
                 h \in HeaderLists(n - 1), u \in DirectiveTokens(" ", 1) }

\* What the parser is constructed with: one string, or an array of strings.
Headers ==
  { [isArray |-> Len(h) > 1, headers |-> h] :
      h \in UNION { HeaderLists(n) : n \in 1..MaxTokens } }

InitParser ==
  /\ unparsedCsps \in Headers
  /\ running = <<>>
  /\ heap = <<>>
  /\ csps = <<>>
  /\ effective = <<>>
  /\ findings = <<>>
  /\ evaluator = NoEvaluator
  /\ last = NoCall

\* new CspParser(unparsedCsps).csps
Parse ==
  \E parsed \in {CspParser(unparsedCsps)} :
     /\ heap' = parsed
     /\ csps' = array([ i \in 1..Len(parsed) |-> i ])
     /\ last' = [op |-> "parse", version |-> 0, returned |-> TRUE]
     /\ UNCHANGED <<effective, findings, evaluator, unparsedCsps, running>>

\* csps.convertToStrings(), the strings kept for the next parser.
ConvertToStrings ==
  /\ last.op # "none"
  /\ unparsedCsps' = [isArray |-> TRUE, headers |-> convertToStrings(live)]
  /\ last' = [op |-> "convertToStrings", version |-> 0, returned |-> TRUE]
  /\ UNCHANGED <<heap, csps, effective, findings, evaluator, running>>

NextParser == Parse \/ ConvertToStrings

SpecParser == InitParser /\ [][NextParser]_vars

(***************************************************************************)
(* Properties of the parser.  After a parse, policy i of the collection is *)
(* compared with raw policy string i: the segments between comma-space of  *)
(* each header string, in order.                                           *)
(***************************************************************************)
Parsed == last.op = "parse"

\* The raw policy strings of the headers h.
RECURSIVE rawPoliciesOf(_)
rawPoliciesOf(h) ==
  IF h = <<>> THEN <<>> ELSE split(Head(h), ", ") \o rawPoliciesOf(Tail(h))

rawPolicies == rawPoliciesOf(unparsedCsps.headers)

\* The directive tokens of raw policy string i, each as its words.
tokenWords(i) ==
  LET directiveTokens == split(rawPolicies[i], ";")
  IN [ k \in 1..Len(directiveTokens) |-> matchNonWhitespace(directiveTokens[k]) ]

\* Token k of raw policy string i names the directive name.
names(i, k, name) ==
  /\ tokenWords(i)[k] # <<>>
  /\ isLatin1(join(tokenWords(i)[k], " "))
  /\ toLowerCase(tokenWords(i)[k][1]) = name

\* The words after the name in the first token of raw policy string i that
\* names the directive.
firstOccurrence(i, name) ==
  LET k == CHOOSE k \in 1..Len(tokenWords(i)) :
             /\ names(i, k, name)
             /\ \A j \in 1..(k - 1) : ~names(i, j, name)
  IN Tail(tokenWords(i)[k])

isLowerCase(s) == \A k \in 1..Len(s) : ~inChars(charAt(s, k), UpperCaseLetters)

normalized(w) ==
  IF toLowerCase(w) \in Keyword
       \/ (endsWith(w, ":") /\ isUrlScheme(toLowerCase(w)))
    THEN toLowerCase(w)
    ELSE w

\* The position at which the value v is first seen among the words.
firstSeen(v, words) ==
  CHOOSE j \in 1..Len(words) :
    /\ normalized(words[j]) = v
    /\ \A h \in 1..(j - 1) : normalized(words[h]) # v

\* C14: in every parsed policy each directive holds the normalized values
\* of its token, each once, in the order in which they are first seen.
ValuesNormalizedOnceInOrder ==
  Parsed =>
    \A i \in 1..Len(live) :
      /\ i <= Len(rawPolicies)
      /\ \A d \in 1..Len(live[i]) :
           LET values == live[i][d].values
               words == firstOccurrence(i, live[i][d].name)
           IN /\ \A a, b \in 1..Len(values) : values[a] = values[b] => a = b
              /\ { values[a] : a \in 1..Len(values) }
                   = { normalized(words[j]) : j \in 1..Len(words) }
              /\ \A a, b \in 1..Len(values) :
                   a < b => firstSeen(values[a], words) < firstSeen(values[b], words)

\* C14, witness: a directive whose token holds a keyword twice, in upper
\* and in lower case, and a directive whose token holds a value that is
\* stored in mixed case.
ValuesNormalizedOnceInOrderWitness ==
  /\ Parsed
  /\ \E i \in 1..Len(live) : \E d \in 1..Len(live[i]) :
       LET words == firstOccurrence(i, live[i][d].name)
       IN /\ Len(words) = 2
          /\ words[1] # words[2]
          /\ ~isLowerCase(words[1])
          /\ Len(live[i][d].values) = 1
  /\ \E i \in 1..Len(live) : \E d \in 1..Len(live[i]) :
       \E a \in 1..Len(live[i][d].values) : ~isLowerCase(live[i][d].values[a])

\* C15: parsing yields, in order, one policy for each segment between
\* comma-space of each header string, an empty one for an empty segment,
\* and each policy holds the directives of its own segment only.
OnePolicyPerSegment ==
  Parsed =>
    /\ Len(live) = Len(rawPolicies)
    /\ \A i \in 1..Len(live) :
         /\ live[i] = parseCsp(rawPolicies[i])
         /\ \A d \in 1..Len(live[i]) :
              \E k \in 1..Len(tokenWords(i)) : names(i, k, live[i][d].name)
         /\ rawPolicies[i] = "" => live[i] = <<>>

\* C15, witness: an array of two header strings that name the same
\* directive with different values, parsed into two policies.
OnePolicyPerSegmentWitness ==
  /\ Parsed
  /\ Len(unparsedCsps.headers) = 2
  /\ Len(live) = 2
  /\ live[1] # <<>>
  /\ live[2] # <<>>
  /\ live[1][1].name = live[2][1].name
  /\ live[1][1].values # live[2][1].values

\* C16: round trip: parsing the strings that convertToStrings returned for
\* a parsed collection yields a collection equal to it: the same policies
\* in the same order, with the same directives and values in the same
\* order.
RoundTrip ==
  [][last.op = "convertToStrings" /\ last'.op = "parse" => heap' = heap]_vars

(***************************************************************************)
(* The state machine of the queries on a parsed collection: the effective  *)
(* directive of the collection and of one of its policies, and the         *)
(* collection-wide predicates.  A query changes nothing; last records it   *)
(* and its result.                                                         *)
(***************************************************************************)
QueriedDirectives ==
  { SCRIPT_SRC, "style-src", BASE_URI, REPORT_URI, REQUIRE_TRUSTED_TYPES_FOR }

query(op, index, directive, result) ==
  [ op |-> op, version |-> 0, returned |-> TRUE, index |-> index,
    directive |-> directive, result |-> result ]

\* csps.getEffectiveDirective(directive)
GetEffectiveDirective(directive) ==
  /\ last' = query("EnforcedCsps.getEffectiveDirective", 0, directive,
                   EnforcedCsps_getEffectiveDirective(live, csps, directive))
  /\ UNCHANGED <<heap, csps, effective, findings, evaluator, unparsedCsps, running>>

\* csp.Csp.getEffectiveDirective(csps[index], directive)
CspGetEffectiveDirective(index, directive) ==
  /\ last' = query("Csp.getEffectiveDirective", index, directive,
                   Csp_getEffectiveDirective(live[csps[index]], directive))
  /\ UNCHANGED <<heap, csps, effective, findings, evaluator, unparsedCsps, running>>

\* csps.policyHasScriptNonces()
PolicyHasScriptNonces ==
  /\ last' = query("policyHasScriptNonces", 0, SCRIPT_SRC,
                   EnforcedCsps_policyHasScriptNonces(live, csps))
  /\ UNCHANGED <<heap, csps, effective, findings, evaluator, unparsedCsps, running>>

\* csps.policyHasScriptHashes()
PolicyHasScriptHashes ==
  /\ last' = query("policyHasScriptHashes", 0, SCRIPT_SRC,
                   EnforcedCsps_policyHasScriptHashes(live, csps))
  /\ UNCHANGED <<heap, csps, effective, findings, evaluator, unparsedCsps, running>>

\* csps.policyHasStrictDynamic()
PolicyHasStrictDynamic ==
  /\ last' = query("policyHasStrictDynamic", 0, SCRIPT_SRC,
                   EnforcedCsps_policyHasStrictDynamic(live, csps))
  /\ UNCHANGED <<heap, csps, effective, findings, evaluator, unparsedCsps, running>>

NextQueries ==
  \/ \E d \in QueriedDirectives : GetEffectiveDirective(d)
  \/ \E i \in 1..Len(csps), d \in QueriedDirectives : CspGetEffectiveDirective(i, d)
  \/ PolicyHasScriptNonces
  \/ PolicyHasScriptHashes
  \/ PolicyHasStrictDynamic

SpecQueries == Init /\ [][NextQueries]_vars

\* The policies the last getEffectiveDirective call looked into: the one
\* policy, or every policy of the collection.
lookedInto ==
  IF last.index = 0 THEN { parsedPolicy(i) : i \in 1..Len(csps) }
  ELSE { parsedPolicy(last.index) }

\* C17: getEffectiveDirective(d) returns default-src if and only if d is
\* absent and a fetch directive, and d itself otherwise: for a directive
\* that is present and for an absent directive that is not a fetch
\* directive.
EffectiveDirectiveSubstitutesFetchOnly ==
  last.op \in {"EnforcedCsps.getEffectiveDirective", "Csp.getEffectiveDirective"} =>
    LET absent == \A policy \in lookedInto : ~hasDirective(policy, last.directive)
    IN /\ last.result = DEFAULT_SRC <=>
            absent /\ last.directive \in FETCH_DIRECTIVES
       /\ last.result # DEFAULT_SRC => last.result = last.directive

\* Some policy of the collection has a value satisfying has among the
\* values of its own effective script-src.
somePolicyHas(has(_)) ==
  \E i \in 1..Len(csps) : \E j \in 1..Len(ownValues(i)) : has(ownValues(i)[j])

\* C18: each collection-wide predicate is true if and only if some policy
\* has a nonce (a hash, 'strict-dynamic') among the values of its own
\* effective script-src: its script-src if it declares one, its default-src
\* otherwise.
CollectionPredicatesUseOwnDirective ==
  /\ last.op = "policyHasScriptNonces" => last.result = somePolicyHas(isNonce)
  /\ last.op = "policyHasScriptHashes" => last.result = somePolicyHas(isHash)
  /\ last.op = "policyHasStrictDynamic" =>
       last.result = somePolicyHas(LAMBDA v : v = STRICT_DYNAMIC)

(***************************************************************************)
(* The state machine of csp.utils.matchWildcardUrls: a call with an        *)
(* allowlisted origin and a list of up to MaxUrls URLs; last holds the     *)
(* arguments, and the result once the call is made.                        *)
(***************************************************************************)
CspUrls ==
  { "//www.google.com", "//WWW.google.com", "//google.com", "//www.foo.bar",
    "https://*.google.com", "https://*.www.google.com", "//*.Google.com",
    "//*google.com", "//*.google.com/jsapi", "//*.google.com/wrongPath",
    "//ajax.googleapis.com/ajax/", "//ajax.googleapis.com/ajax" }

ListedUrls ==
  { "//www.google.com/jsapi", "//google.com/jsapi", "//evilgoogle.com/jsapi",
    "//www.Google.com/jsapi", "//googletagmanager.com/gtm/js",
    "//ajax.googleapis.com/ajax/services/feed/load" }

\* The arguments of the call to come: goog.Uri objects.
InitUrls ==
  /\ heap = <<>>
  /\ csps = <<>>
  /\ effective = <<>>
  /\ findings = <<>>
  /\ evaluator = NoEvaluator
  /\ unparsedCsps = NoHeaders
  /\ running = <<>>
  /\ \E cspUrl \in CspUrls, n \in 0..MaxUrls :
       \E listOfUrls \in [1..n -> ListedUrls] :
         last = [ op |-> "none", version |-> 0, returned |-> FALSE,
                  cspUrl |-> Uri(cspUrl),
                  listOfUrls |-> array([ i \in 1..n |-> Uri(listOfUrls[i]) ]) ]

\* csp.utils.matchWildcardUrls(cspUrl, listOfUrls)
MatchWildcardUrls ==
  /\ last.op = "none"
  /\ last' = [ op |-> "matchWildcardUrls", version |-> 0, returned |-> TRUE,
               cspUrl |-> last.cspUrl,
               listOfUrls |-> last.listOfUrls,
               result |-> matchWildcardUrls(last.cspUrl, last.listOfUrls) ]
  /\ UNCHANGED <<heap, csps, effective, findings, evaluator, unparsedCsps, running>>

NextUrls == MatchWildcardUrls

SpecUrls == InitUrls /\ [][NextUrls]_vars

Matched == last.op = "matchWildcardUrls"

\* The lowercased host of the allowlisted origin of the last call.
patternHost == toLowerCase(last.cspUrl.domain)

\* C19: for an allowlisted origin whose host has no leading "*." the
\* returned URL, if any, has a domain equal to the lowercased host: a URL
\* with another host, a subdomain included, is never returned.
NoWildcardMatchesEqualHostOnly ==
  Matched /\ ~startsWith(patternHost, "*.") =>
    \A i \in 1..Len(last.result) : last.result[i].domain = patternHost

\* C19, witness: a call without wildcard whose list starts with a subdomain
\* of the host, which is skipped, and holds the host itself, which is
\* returned.
NoWildcardMatchesEqualHostOnlyWitness ==
  /\ Matched
  /\ ~startsWith(patternHost, "*.")
  /\ Len(last.listOfUrls) = 2
  /\ last.listOfUrls[1].domain # patternHost
  /\ endsWith(last.listOfUrls[1].domain, "." \o patternHost)
  /\ last.result = << last.listOfUrls[2] >>

\* The first URL of the list satisfying the host constraint, as an array.
firstSatisfying(hostConstraint(_)) ==
  LET S == { i \in 1..Len(last.listOfUrls) : hostConstraint(last.listOfUrls[i]) }
  IN IF S = {} THEN <<>>
     ELSE << last.listOfUrls[CHOOSE i \in S : \A j \in S : i <= j] >>

\* C20, as stated: for an origin without path the URL returned is the
\* first whose domain ends with H, the lowercased host with a leading "*."
\* stripped, and which equals the host unless the host had the wildcard.
HostRuleStrippingWildcardAndDot ==
  Matched /\ last.cspUrl.path = "" =>
    last.result = firstSatisfying(LAMBDA url :
      /\ endsWith(url.domain,
                  IF startsWith(patternHost, "*.")
                    THEN substringFrom(patternHost, 3) ELSE patternHost)
      /\ startsWith(patternHost, "*.") \/ url.domain = patternHost)

\* C20, amended: for an origin without path the URL returned is the first
\* whose domain ends with H, the lowercased host with a leading "*"
\* stripped (H keeps the dot of a "*." wildcard), and which equals the host
\* unless the host had the "*." wildcard.
HostRuleStrippingWildcardOnly ==
  Matched /\ last.cspUrl.path = "" =>
    last.result = firstSatisfying(LAMBDA url :
      /\ endsWith(url.domain,
                  IF startsWith(patternHost, "*")
                    THEN substringFrom(patternHost, 2) ELSE patternHost)
      /\ startsWith(patternHost, "*.") \/ url.domain = patternHost)

\* C20, witness: a call with a "*." wildcard and no path whose list starts
\* with a URL whose domain ends with the host after the dot without being
\* a subdomain of it, which is skipped, and holds a subdomain, which is
\* returned.
HostRuleStrippingWildcardOnlyWitness ==
  /\ Matched
  /\ last.cspUrl.path = ""
  /\ startsWith(patternHost, "*.")
  /\ Len(last.listOfUrls) = 2
  /\ endsWith(last.listOfUrls[1].domain, substringFrom(patternHost, 3))
  /\ ~endsWith(last.listOfUrls[1].domain, substringFrom(patternHost, 2))
  /\ last.result = << last.listOfUrls[2] >>

\* The host H of a wildcard origin "*.H".
wildcardParent == substringFrom(patternHost, 3)

\* url's domain is a subdomain of H.
isSubdomain(url) == endsWith(url.domain, "." \o wildcardParent)

\* C21: for an allowlisted origin "*.H" a URL whose domain is H itself is
\* never returned, every URL returned has a subdomain of H as its domain,
\* and when the origin has no path a list holding a URL of a subdomain of
\* H yields a match.
WildcardMatchesSubdomainsOnly ==
  Matched /\ startsWith(patternHost, "*.") =>
    /\ \A i \in 1..Len(last.result) :
         /\ last.result[i].domain # wildcardParent
         /\ isSubdomain(last.result[i])
    /\ /\ last.cspUrl.path = ""
       /\ \E i \in 1..Len(last.listOfUrls) : isSubdomain(last.listOfUrls[i])
       => last.result # <<>>

\* C21, witness: a call with origin "*.H" whose list starts with a URL of
\* H itself, which is skipped, and holds a URL of a subdomain of H, which
\* is returned.
WildcardMatchesSubdomainsOnlyWitness ==
  /\ Matched
  /\ startsWith(patternHost, "*.")
  /\ Len(last.listOfUrls) = 2
  /\ last.listOfUrls[1].domain = wildcardParent
  /\ isSubdomain(last.listOfUrls[2])
  /\ last.result = << last.listOfUrls[2] >>

\* url passes the host tests of the last call.
hostMatches(url) ==
  /\ endsWith(url.domain,
              IF startsWith(patternHost, "*")
                THEN substringFrom(patternHost, 2) ELSE patternHost)
  /\ startsWith(patternHost, "*.") \/ url.domain = patternHost

\* C22: the URL returned is the first host-matching URL of the list whose
\* path starts with the origin's path if that path ends in "/", equals the
\* origin's path if it does not, and is any path if the origin has none.
PathRule ==
  Matched =>
    last.result = firstSatisfying(LAMBDA url :
      /\ hostMatches(url)
      /\ IF last.cspUrl.path = "" THEN TRUE
         ELSE IF endsWith(last.cspUrl.path, "/")
           THEN startsWith(url.path, last.cspUrl.path)
         ELSE url.path = last.cspUrl.path)

\* C22, witness: an origin whose path does not end in "/" and a list of
\* one host-matching URL whose path continues the origin's path: no match.
PathRuleWitness ==
  /\ Matched
  /\ last.cspUrl.path # ""
  /\ ~endsWith(last.cspUrl.path, "/")
  /\ Len(last.listOfUrls) = 1
  /\ hostMatches(last.listOfUrls[1])
  /\ startsWith(last.listOfUrls[1].path, last.cspUrl.path \o "/")
  /\ last.result = <<>>

(***************************************************************************)
(* The state machine of the security checks: one parsed policy, the        *)
(* resolver csp.Csp.getEffectiveCsp, and single checks run on the parsed   *)
(* policy or on the effective policy of the last resolution.               *)
(***************************************************************************)
MaxCheckedValues == 2

CheckedValues ==
  { UNSAFE_INLINE, UNSAFE_EVAL, STRICT_DYNAMIC, "'nonce-foobar'",
    "'sha256-foobar'", "googletagmanager.com", "gstatic.com" }

\* default-src, object-src and base-uri as the policies under test have
\* them, the empty sequence for an absent directive.
CheckedDefaultSrc ==
  { <<>>, <<entry(DEFAULT_SRC, <<NONE>>)>>, <<entry(DEFAULT_SRC, <<SELF>>)>>,
    <<entry(DEFAULT_SRC, <<UNSAFE_INLINE, "'nonce-foobar'">>)>> }

CheckedObjectSrc == { <<>>, <<entry(OBJECT_SRC, <<NONE>>)>> }

CheckedBaseUri == { <<>>, <<entry(BASE_URI, <<NONE>>)>> }

CheckedScriptSrc ==
  { <<>> } \cup { <<entry(SCRIPT_SRC, l)>> :
                    l \in ValueLists(CheckedValues, MaxCheckedValues) }

CheckedPolicies ==
  { d \o sc \o o \o b :
      d \in CheckedDefaultSrc, sc \in CheckedScriptSrc,
      o \in CheckedObjectSrc, b \in CheckedBaseUri }

SingleChecks ==
  { "checkScriptUnsafeInline", "checkMissingDirectives",
    "checkScriptWhitelistBypass" }

InitChecks ==
  /\ \E p \in CheckedPolicies : heap = <<p>>
  /\ csps = <<1>>
  /\ effective = <<>>
  /\ findings = <<>>
  /\ evaluator = NoEvaluator
  /\ last = NoCall
  /\ unparsedCsps = NoHeaders
  /\ running = <<>>

\* effectiveCsp = csp.Csp.getEffectiveCsp(parsedCsp, cspVersion)
ResolveForCheck(cspVersion) ==
  \E r \in {Csp_getEffectiveCsp(live, csps[1], cspVersion, <<>>)} :
     /\ heap' = r.heap
     /\ effective' = r.refs
     /\ findings' = r.findings
     /\ last' = [op |-> "getEffectiveCsp", version |-> cspVersion,
                 returned |-> TRUE]
     /\ UNCHANGED <<csps, evaluator, unparsedCsps, running>>

\* violations = check(parsedCsp) or check(effectiveCsp); last.version stays
\* the version effectiveCsp was computed for.
RunCheck(check, onEffective) ==
  /\ onEffective => effective # <<>>
  /\ last' = [ op |-> "check", version |-> last.version, returned |-> TRUE,
               check |-> check, onEffective |-> onEffective,
               violations |->
                 call(check, heap[IF onEffective THEN effective[1] ELSE csps[1]]) ]
  /\ UNCHANGED <<heap, csps, effective, findings, evaluator, unparsedCsps, running>>

NextChecks ==
  \/ \E v \in CSP1..CSP3 : ResolveForCheck(v)
  \/ \E check \in SingleChecks, onEffective \in BOOLEAN :
       RunCheck(check, onEffective)

SpecChecks == InitChecks /\ [][NextChecks]_vars

(***************************************************************************)
(* Properties of the security checks.                                      *)
(***************************************************************************)
\* The last call ran check on the parsed or on the effective policy.
Checked(check, onEffective) ==
  /\ last.op = "check"
  /\ last.check = check
  /\ last.onEffective = onEffective

\* The values of the effective script-src directive of the parsed policy.
parsedScriptSrc ==
  valuesOrEmpty(heap[csps[1]], Csp_getEffectiveDirective(heap[csps[1]], SCRIPT_SRC))

\* C23: for a parsed policy whose effective script-src holds
\* 'unsafe-inline' and a nonce or a hash, checkScriptUnsafeInline on the
\* effective policy returns one finding of severity HIGH at version 1 and
\* none at versions 2 and 3.
UnsafeInlineWithNonceReportedInCsp1Only ==
  /\ Checked("checkScriptUnsafeInline", TRUE)
  /\ includes(parsedScriptSrc, UNSAFE_INLINE)
  /\ \E i \in 1..Len(parsedScriptSrc) :
       isNonce(parsedScriptSrc[i]) \/ isHash(parsedScriptSrc[i])
  => IF last.version = CSP1
       THEN /\ Len(last.violations) = 1
            /\ last.violations[1].type = Type_SCRIPT_UNSAFE_INLINE
            /\ last.violations[1].severity = Severity_HIGH
       ELSE last.violations = <<>>

\* C23, witness: the check on the effective policy of version 1 of a
\* policy with 'unsafe-inline' and a hash in script-src returned a finding.
UnsafeInlineWithNonceReportedInCsp1OnlyWitness ==
  /\ Checked("checkScriptUnsafeInline", TRUE)
  /\ last.version = CSP1
  /\ hasDirective(heap[csps[1]], SCRIPT_SRC)
  /\ includes(parsedScriptSrc, UNSAFE_INLINE)
  /\ \E i \in 1..Len(parsedScriptSrc) : isHash(parsedScriptSrc[i])
  /\ Len(last.violations) = 1

\* The policy the last check was run on.
checkedPolicy == heap[IF last.onEffective THEN effective[1] ELSE csps[1]]

\* The findings of the last check about directive d.
violationsAbout(d) == SelectSeq(last.violations, LAMBDA f : f.directive = d)

\* C24: on a policy that declares default-src, checkMissingDirectives never
\* reports script-src; it reports object-src, once and with severity
\* HIGH_MAYBE, exactly when object-src is absent and default-src does not
\* hold 'none'; and when base-uri is declared too it reports nothing else.
MissingDirectivesWithDefaultSrc ==
  /\ last.op = "check"
  /\ last.check = "checkMissingDirectives"
  /\ hasDirective(checkedPolicy, DEFAULT_SRC)
  => /\ violationsAbout(SCRIPT_SRC) = <<>>
     /\ IF /\ ~hasDirective(checkedPolicy, OBJECT_SRC)
           /\ ~includes(directiveValues(checkedPolicy, DEFAULT_SRC), NONE)
          THEN /\ Len(violationsAbout(OBJECT_SRC)) = 1
               /\ violationsAbout(OBJECT_SRC)[1].type = Type_MISSING_DIRECTIVES
               /\ violationsAbout(OBJECT_SRC)[1].severity = Severity_HIGH_MAYBE
          ELSE violationsAbout(OBJECT_SRC) = <<>>
     /\ hasDirective(checkedPolicy, BASE_URI) =>
          last.violations = violationsAbout(OBJECT_SRC)

\* C24, witness: a policy with default-src other than 'none', a base-uri,
\* no script-src and no object-src, for which the check returned the
\* object-src finding alone.
MissingDirectivesWithDefaultSrcWitness ==
  /\ last.op = "check"
  /\ last.check = "checkMissingDirectives"
  /\ hasDirective(checkedPolicy, DEFAULT_SRC)
  /\ hasDirective(checkedPolicy, BASE_URI)
  /\ ~hasDirective(checkedPolicy, SCRIPT_SRC)
  /\ ~hasDirective(checkedPolicy, OBJECT_SRC)
  /\ Len(last.violations) = 1
  /\ last.violations[1].directive = OBJECT_SRC

\* The values of the effective script-src directive of the checked policy.
checkedScriptSrc ==
  valuesOrEmpty(checkedPolicy, Csp_getEffectiveDirective(checkedPolicy, SCRIPT_SRC))

usesNonce == \E i \in 1..Len(checkedScriptSrc) : isNonce(checkedScriptSrc[i])

usesHash == \E i \in 1..Len(checkedScriptSrc) : isHash(checkedScriptSrc[i])

\* C25: checkMissingDirectives reports base-uri, once and with severity
\* HIGH, if and only if the policy has no base-uri and its effective
\* script-src holds a nonce, or a hash together with 'strict-dynamic';
\* with or without default-src.
BaseUriMissingOnlyForNonceOrHashPolicies ==
  last.op = "check" /\ last.check = "checkMissingDirectives" =>
    IF /\ ~hasDirective(checkedPolicy, BASE_URI)
       /\ \/ usesNonce
          \/ usesHash /\ includes(checkedScriptSrc, STRICT_DYNAMIC)
      THEN /\ Len(violationsAbout(BASE_URI)) = 1
           /\ violationsAbout(BASE_URI)[1].type = Type_MISSING_DIRECTIVES
           /\ violationsAbout(BASE_URI)[1].severity = Severity_HIGH
      ELSE violationsAbout(BASE_URI) = <<>>

\* C25, witness: a policy without base-uri and without default-src whose
\* script-src holds a hash and no 'strict-dynamic': the check returned
\* findings, none of them about base-uri.
BaseUriMissingOnlyForNonceOrHashPoliciesWitness ==
  /\ last.op = "check"
  /\ last.check = "checkMissingDirectives"
  /\ ~hasDirective(checkedPolicy, BASE_URI)
  /\ ~hasDirective(checkedPolicy, DEFAULT_SRC)
  /\ usesHash
  /\ ~usesNonce
  /\ ~includes(checkedScriptSrc, STRICT_DYNAMIC)
  /\ last.violations # <<>>
  /\ violationsAbout(BASE_URI) = <<>>

\* The findings of the last check about the value v.
violationsAboutValue(v) == SelectSeq(last.violations, LAMBDA f : f.value = v)

MaxCalls == 2

InterleavedPolicies ==
  { <<entry(SCRIPT_SRC, <<UNSAFE_INLINE, "'nonce-123'">>)>>,
    <<entry(SCRIPT_SRC, <<STRICT_DYNAMIC, "foo.bar", SELF>>)>>,
    <<entry(DEFAULT_SRC, <<"'sha256-foobar'", UNSAFE_INLINE>>)>>
      \o Csp3Directives,
    <<entry(SCRIPT_SRC, <<SELF>>)>> }

InitInterleaved ==
  /\ \E n \in 0..MaxPolicies : heap \in [1..n -> InterleavedPolicies]
  /\ csps = array([i \in 1..Len(heap) |-> i])
  /\ effective = <<>>
  /\ findings = <<>>
  /\ evaluator = NoEvaluator
  /\ last = NoCall
  /\ unparsedCsps = NoHeaders
  /\ running = <<>>

\* The call reaches its loop: findings, effectiveCsps and directive are set.
StartCall(cspVersion) ==
  /\ Len(running) < MaxCalls
  /\ \E cl \in {EnforcedCsps_clone(heap, csps)} :
       /\ heap' = cl.heap
       /\ running' = Append(running,
            [ version |-> cspVersion, refs |-> cl.refs,
              directive |-> EnforcedCsps_getEffectiveDirective(cl.heap, cl.refs,
                                                               SCRIPT_SRC),
              index |-> 1, findings |-> <<>>, returned |-> FALSE ])
  /\ UNCHANGED <<csps, effective, findings, evaluator, last, unparsedCsps>>

\* One pass of the loop of call c.
LoopPass(c) ==
  /\ ~running[c].returned
  /\ running[c].index <= Len(running[c].refs)
  /\ \E st \in { policyRules([heap |-> heap, findings |-> running[c].findings],
                     valuesOrEmpty(heap[csps[running[c].index]], running[c].directive),
                     csps[running[c].index], running[c].refs[running[c].index],
                     running[c].directive, running[c].version) } :
       /\ heap' = st.heap
       /\ running' = [running EXCEPT ![c].index = @ + 1,
                                     ![c].findings = st.findings]
  /\ UNCHANGED <<csps, effective, findings, evaluator, last, unparsedCsps>>

\* return effectiveCsps
ReturnCall(c) ==
  /\ ~running[c].returned
  /\ running[c].index > Len(running[c].refs)
  /\ running' = [running EXCEPT ![c].returned = TRUE]
  /\ effective' = running[c].refs
  /\ findings' = running[c].findings
  /\ last' = [op |-> "getEffectiveCsps", version |-> running[c].version,
              returned |-> TRUE]
  /\ UNCHANGED <<heap, csps, evaluator, unparsedCsps>>

NextInterleaved ==
  \/ \E v \in CSP1..CSP3 : StartCall(v)
  \/ \E c \in 1..Len(running) : LoopPass(c)
  \/ \E c \in 1..Len(running) : ReturnCall(c)

SpecInterleaved == InitInterleaved /\ [][NextInterleaved]_vars

\* What call c returned is what a call of its version returns when it runs
\* alone on the parsed collection: equal policies and equal findings.
returnedAsAlone(c) ==
  LET alone == getEffectiveCsps(live, csps, running[c].version, <<>>)
  IN /\ deref(heap, running[c].refs) = deref(alone.heap, alone.refs)
     /\ running[c].findings = alone.findings

\* C27: in every step of interleaved calls the parsed collection and its
\* policies stay as they are, and every call that has returned has
\* returned the effective collection and the findings of a call of its
\* version running alone.
InterleavedCallsAreIsolated ==
  /\ [][csps' = csps /\ live' = live]_vars
  /\ [](\A c \in 1..Len(running) : running[c].returned => returnedAsAlone(c))

\* C27, witness: two calls of different versions in flight at once, the
\* second started after the first entered its loop and returned before
\* the first ended, with a collection that differs from the parsed one.
InterleavedCallsAreIsolatedWitness ==
  /\ Len(running) = 2
  /\ running[1].version # running[2].version
  /\ running[1].index = 2
  /\ ~running[1].returned
  /\ running[2].returned
  /\ Len(csps) = 2
  /\ deref(heap, running[2].refs) # live

(***************************************************************************)
(* The strict-CSP check checkAllowlistFallback on a parsed collection:     *)
(* parsedCsps.directives holds the directives of every policy, and         *)
(* parsedCsps.getEffectiveDirective is that of the collection.             *)
(***************************************************************************)
\* values.some(v => ['http:', 'https:', '*'].includes(v) || v.includes('.'))
hasAllowlist(values) ==
  \E i \in 1..Len(values) :
    \/ includes(<<"http:", "https:", "*">>, values[i])
    \/ indexOf(values[i], ".") # 0

\* The loop over parsedCsps.directives; a policy without 'strict-dynamic'
\* ends the check with return [].
RECURSIVE allowlistFallbackLoop(_, _, _, _, _)
allowlistFallbackLoop(h, refs, i, directiveName, violations) ==
  IF i > Len(refs)
    THEN violations
    ELSE LET values == valuesOrEmpty(h[refs[i]], directiveName)
         IN IF ~includes(values, STRICT_DYNAMIC)
              THEN <<>>
              ELSE allowlistFallbackLoop(h, refs, i + 1, directiveName,
                     IF ~hasAllowlist(values)
                       THEN Append(violations, Finding(Type_ALLOWLIST_FALLBACK,
                              "Consider adding https: and http: url schemes (ignored by browsers supporting 'strict-dynamic') to be backward compatible with older browsers.",
                              Severity_STRICT_CSP, directiveName, Undefined))
                       ELSE violations)

checkAllowlistFallback(h, parsedCsps) ==
  allowlistFallbackLoop(h, parsedCsps, 1,
    EnforcedCsps_getEffectiveDirective(h, parsedCsps, SCRIPT_SRC), <<>>)

StrictCspValues == { STRICT_DYNAMIC, "'nonce-123'", "https:", "foo.bar", SELF }

StrictCspPolicies ==
  { <<entry(SCRIPT_SRC, l)>> : l \in ValueLists(StrictCspValues, MaxCheckedValues) }
  \cup { <<entry(DEFAULT_SRC, <<STRICT_DYNAMIC>>)>>,
         <<entry(DEFAULT_SRC, <<SELF>>)>> }

InitStrictCsp ==
  /\ \E n \in 0..MaxPolicies : heap \in [1..n -> StrictCspPolicies]
  /\ csps = array([i \in 1..Len(heap) |-> i])
  /\ effective = <<>>
  /\ findings = <<>>
  /\ evaluator = NoEvaluator
  /\ last = NoCall
  /\ unparsedCsps = NoHeaders
  /\ running = <<>>

\* violations = checkAllowlistFallback(parsedCsps)
CheckAllowlistFallback ==
  /\ last' = [ op |-> "checkAllowlistFallback", version |-> 0,
               returned |-> TRUE,
               violations |-> checkAllowlistFallback(live, csps) ]
  /\ UNCHANGED <<heap, csps, effective, findings, evaluator, unparsedCsps, running>>

NextStrictCsp == CheckAllowlistFallback

SpecStrictCsp == InitStrictCsp /\ [][NextStrictCsp]_vars

\* Policy i holds 'strict-dynamic' among its script-src values and no
\* http:, https:, * or dotted value.
lacksAllowlistFallback(i) ==
  LET values == valuesOrEmpty(parsedPolicy(i),
                  Csp_getEffectiveDirective(parsedPolicy(i), SCRIPT_SRC))
  IN includes(values, STRICT_DYNAMIC) /\ ~hasAllowlist(values)

\* C28: checkAllowlistFallback returns one ALLOWLIST_FALLBACK finding of
\* severity STRICT_CSP for each policy of the collection with
\* 'strict-dynamic' and no allowlist fallback, and nothing else, whatever
\* the other policies and their order.
AllowlistFallbackPerPolicy ==
  last.op = "checkAllowlistFallback" =>
    /\ Len(last.violations)
         = Cardinality({ i \in 1..Len(csps) : lacksAllowlistFallback(i) })
    /\ \A k \in 1..Len(last.violations) :
         /\ last.violations[k].type = Type_ALLOWLIST_FALLBACK
         /\ last.violations[k].severity = Severity_STRICT_CSP

\* C29: the collection a resolver call returns is a restriction of the
\* parsed one: as many policies, policy i of the one resolved from policy
\* i of the other, every directive of the effective policy a directive of
\* the parsed policy, and every effective value list a subsequence of the
\* parsed list of that directive.
EffectiveIsRestrictionOfParsed ==
  last.op = "getEffectiveCsps" /\ last.returned =>
    /\ Len(effective) = Len(csps)
    /\ \A i \in 1..Len(effective) :
         \A k \in 1..Len(effectivePolicy(i)) :
           /\ hasDirective(parsedPolicy(i), effectivePolicy(i)[k].name)
           /\ isSubsequence(effectivePolicy(i)[k].values,
                directiveValues(parsedPolicy(i), effectivePolicy(i)[k].name))

\* C29, witness: a call on two policies that removed a value from the
\* middle of a list of three.
EffectiveIsRestrictionOfParsedWitness ==
  /\ last.op = "getEffectiveCsps"
  /\ last.returned
  /\ Len(effective) = 2
  /\ \E i \in 1..2 : \E k \in 1..Len(effectivePolicy(i)) :
       LET parsedValues ==
             directiveValues(parsedPolicy(i), effectivePolicy(i)[k].name)
       IN /\ Len(parsedValues) = 3
          /\ effectivePolicy(i)[k].values = <<parsedValues[1], parsedValues[3]>>

(***************************************************************************)
(* The state machine of repeated evaluations: one evaluator, and calls of  *)
(* evaluate; last.calls counts the calls in a row with the same two check  *)
(* lists, up to MaxRepeats.                                                *)
(***************************************************************************)
MaxRepeats == 3

RepeatedPolicies ==
  { <<entry(d, l)>> :
      d \in {DEFAULT_SRC, SCRIPT_SRC},
      l \in ValueLists(EvaluatorValues, MaxCheckedValues) }
  \cup MistakenPolicies

InitRepeated ==
  /\ \E p \in RepeatedPolicies : heap = <<p>>
  /\ csps = <<1>>
  /\ effective = <<>>
  /\ findings = <<>>
  /\ \E opt_cspVersion \in OptVersions :
       evaluator = CspEvaluator(csps[1], opt_cspVersion)
  /\ last = NoCall
  /\ unparsedCsps = NoHeaders
  /\ running = <<>>

\* The last call was evaluate with these two arguments.
sameArguments(opt_parsedCspChecks, opt_effectiveCspChecks) ==
  /\ last.op = "evaluate"
  /\ last.parsedCspChecks = opt_parsedCspChecks
  /\ last.effectiveCspChecks = effectiveChecks(opt_effectiveCspChecks)
  /\ last.defaultChecks = ~opt_effectiveCspChecks.given

\* evaluator.evaluate(opt_parsedCspChecks, opt_effectiveCspChecks), once more.
EvaluateAgain(opt_parsedCspChecks, opt_effectiveCspChecks) ==
  \E r \in {CspEvaluator_evaluate(live, evaluator, opt_parsedCspChecks,
                                  opt_effectiveCspChecks)} :
     /\ heap' = r.heap
     /\ effective' = <<r.effectiveCsp>>
     /\ findings' = r.opt_findings
     /\ evaluator' = [evaluator EXCEPT !.findings = r.findings]
     /\ last' = [op |-> "evaluate", version |-> evaluator.version,
                 returned |-> ~r.thrown,
                 parsedCspChecks |-> opt_parsedCspChecks,
                 effectiveCspChecks |-> effectiveChecks(opt_effectiveCspChecks),
                 defaultChecks |-> ~opt_effectiveCspChecks.given,
                 calls |-> IF sameArguments(opt_parsedCspChecks,
                                            opt_effectiveCspChecks)
                             THEN IF last.calls < MaxRepeats
                                    THEN last.calls + 1 ELSE MaxRepeats
                             ELSE 1]
     /\ UNCHANGED <<csps, unparsedCsps, running>>

NextRepeated == \E args \in EvaluateArguments : EvaluateAgain(args[1], args[2])

SpecRepeated == InitRepeated /\ [][NextRepeated]_vars

\* C30: a call of evaluate leaves the evaluator's policy and version as
\* they are, and a call that follows a call with the same two check lists
\* ends as that call did, with an equal list of findings: nothing of the
\* earlier call is accumulated.
EvaluateIsRepeatable ==
  [][ last'.op = "evaluate" =>
        /\ evaluator'.csp = evaluator.csp
        /\ evaluator'.version = evaluator.version
        /\ heap'[evaluator'.csp] = heap[evaluator.csp]
        /\ ( /\ last.op = "evaluate"
             /\ last'.parsedCspChecks = last.parsedCspChecks
             /\ last'.effectiveCspChecks = last.effectiveCspChecks
             /\ last'.defaultChecks = last.defaultChecks )
           => /\ evaluator'.findings = evaluator.findings
              /\ last'.returned = last.returned ]_vars

\* C30, witness: the third call in a row with the same lists returned, and
\* its list holds a finding of the resolver and findings of checks.
EvaluateIsRepeatableWitness ==
  /\ last.op = "evaluate"
  /\ last.calls = MaxRepeats
  /\ last.returned
  /\ findings # <<>>
  /\ Len(evaluator.findings) > Len(findings)

====
